---- MODULE Spec2Model ----
(***************************************************************************)
(* Model of the vectorized ray-tracing kernel of rust-ray-tracing:         *)
(*   - Scene::trace_vectorized / trace_vectorized2 / trace_vectorized3     *)
(*     (src/src/ray_tracing.rs) run one after the other on the same input  *)
(*     chunks, the same depth_limit and the same scene;                    *)
(*   - Scene::trace (scalar recursion), under the specification SpecTrace; *)
(*   - Sphere::hit / Sphere::hit_packed and PackedHitRecords::update       *)
(*     (src/src/objects.rs), under SpecSphere and SpecUpdate.              *)
(*                                                                         *)
(* Abstractions.  A colour is one integer channel (the three channels of   *)
(* Color are always treated alike): black = 0, white = 1, `*` and `+` are  *)
(* integer product and sum.  A ray is a record of an integer origin and an *)
(* integer direction.  The scene seen from the tracers is the table        *)
(* `scene`: for every camera sample it gives what happens to the path of   *)
(* that sample (it misses at some bounce, is absorbed at some bounce, or   *)
(* keeps scattering).  Every ray of every path has its own direction, so   *)
(* the outcome of a ray is a function of the ray alone, as in the code.    *)
(***************************************************************************)
EXTENDS Integers, Sequences, FiniteSets, TLC

\* ------------------------------------------------------------------ bounds
N == 2              \* lane count of PackedRays<N>
MaxSamples == 4     \* largest number of camera samples (samples_per_pixel)
MaxDepth == 3       \* largest depth_limit (max_bounces)

Lanes == 0 .. (N - 1)
Stride == MaxDepth + 1

Min(a, b) == IF a < b THEN a ELSE b

VARIABLES
    pc,             \* position of the driver
    rays_in,        \* the input chunks: 0..len-1 -> PackedRays
    depth_limit,    \* the bounce budget given to every tracer
    scene,          \* sample -> fate of the path of that sample
    \* Scene::trace (scalar)
    t_ray, t_depth, t_stack, t_hit_calls, t_result,
    \* TileRenderTask::render_vectorized + Scene::trace_vectorized
    v1_j, v1_rays, v1_color, v1_hit_sky, v1_k, v1_out, packed_color, result1,
    \* Scene::trace_vectorized2
    ray_buffers, color2, hit_sky2, last_active_chunk2, k2, result2,
    \* Scene::trace_vectorized3
    rays3, color3, hit_sky3, last_active_chunk3, k3, front_index, back_index,
    swaps3, result3,
    \* Sphere::hit_packed / PackedHitRecords
    h_rays, hit_records, h_calls, h_last,
    \* the bounce loop step by step: the tracer under way, the chunk of the
    \* `for j` loop and the object of the `for object` loop
    o_tracer, o_j, o_obj,
    \* TileRenderer::render: the main thread, the two channels, the workers
    r_pc, r_input, task_queue, update_queue, w_pc, w_task, results, r_joined,
    image, r_count,
    \* Scene::trace_rays, and Scene::trace called for every ray of the list
    ray_stats, tr_k, tr_i, tr_out, tr_ref

tracerVars == <<pc, rays_in, depth_limit, scene>>
traceVars == <<t_ray, t_depth, t_stack, t_hit_calls, t_result>>
v1Vars == <<v1_j, v1_rays, v1_color, v1_hit_sky, v1_k, v1_out, packed_color, result1>>
v2Vars == <<ray_buffers, color2, hit_sky2, last_active_chunk2, k2, result2>>
v3Vars == <<rays3, color3, hit_sky3, last_active_chunk3, k3, front_index,
            back_index, swaps3, result3>>
hitVars == <<h_rays, hit_records, h_calls, h_last>>
orderVars == <<o_tracer, o_j, o_obj>>
renderVars == <<r_pc, r_input, task_queue, update_queue, w_pc, w_task, results,
                r_joined, image, r_count>>
raysVars == <<ray_stats, tr_k, tr_i, tr_out, tr_ref>>
vars == <<tracerVars, traceVars, v1Vars, v2Vars, v3Vars, hitVars, orderVars, renderVars,
          raysVars>>

\* ------------------------------------------------------------ Option<T>
None == << >>
Some(x) == <<x>>
IsSome(o) == Len(o) = 1
Unwrap(o) == o[1]

\* the value of a call that panicked
Panic == 0 - 1

\* ------------------------------------------------------------ Color
Black == 0
White == 1

\* ------------------------------------------------------------ Ray
RayNew(origin, direction) == [origin |-> origin, direction |-> direction]

\* PackedVec3::default(): all components zero
DefaultVec == [i \in Lanes |-> 0]

\* ------------------------------------------------------------ PackedRays
PackedRaysNew(origins, directions) ==
    [origins |-> origins, directions |-> directions, enabled |-> [i \in Lanes |-> TRUE]]

is_enabled(r, index) == r.enabled[index]

at(r, index) ==
    IF r.enabled[index]
    THEN Some(RayNew(r.origins[index], r.directions[index]))
    ELSE None

at_including_disabled(r, index) == RayNew(r.origins[index], r.directions[index])

\* update that writes the ray and leaves the enabled flag as it is
update_KeepFlag(r, index, value) ==
    [origins |-> [r.origins EXCEPT ![index] = value.origin],
     directions |-> [r.directions EXCEPT ![index] = value.direction],
     enabled |-> r.enabled]

update(r, index, value) ==
    [origins |-> [r.origins EXCEPT ![index] = value.origin],
     directions |-> [r.directions EXCEPT ![index] = value.direction],
     enabled |-> [r.enabled EXCEPT ![index] = TRUE]]

update_with_enable(r, index, value, enable) ==
    [origins |-> [r.origins EXCEPT ![index] = value.origin],
     directions |-> [r.directions EXCEPT ![index] = value.direction],
     enabled |-> [r.enabled EXCEPT ![index] = enable]]

any_enabled(r) == \E i \in Lanes : r.enabled[i]

\* disable that also clears the ray data of the lane
disable_ClearsRay(r, index) ==
    [origins |-> [r.origins EXCEPT ![index] = 0],
     directions |-> [r.directions EXCEPT ![index] = 0],
     enabled |-> [r.enabled EXCEPT ![index] = FALSE]]

disable(r, index) == [r EXCEPT !.enabled[index] = FALSE]

enable(r, index) == [r EXCEPT !.enabled[index] = TRUE]

\* FromIterator<Ray> for PackedRays: the rays of `s` (a sequence of at most N
\* rays) go to lanes 0.., the other lanes stay default and disabled.
RECURSIVE from_iter_loop(_, _, _)
from_iter_loop(packed_rays, s, index) ==
    IF index >= Len(s) THEN packed_rays
    ELSE IF ~(index < N) THEN Panic     \* assert!(index < N, ..)
    ELSE from_iter_loop(update(packed_rays, index, s[index + 1]), s, index + 1)

\* from_iter that starts from a batch with every lane enabled
from_iter_AllEnabled(s) ==
    from_iter_loop([origins |-> DefaultVec, directions |-> DefaultVec,
                    enabled |-> [i \in Lanes |-> TRUE]], s, 0)

from_iter(s) ==
    from_iter_loop([origins |-> DefaultVec, directions |-> DefaultVec,
                    enabled |-> [i \in Lanes |-> FALSE]], s, 0)

\* ------------------------------------------------------------ PackedColor
broadcast_scaler(c) == [i \in Lanes |-> c]

\* masked_select(base, other, mask): lane i of `other` where mask[i], else of `base`
masked_select(base, other, mask) ==
    [i \in Lanes |-> IF mask[i] THEN other[i] ELSE base[i]]

\* PackedColor::assign_masked
assign_masked(self, colors, mask) == masked_select(self, colors, mask)

RECURSIVE SumLanes(_, _)
SumLanes(c, i) == IF i >= N THEN 0 ELSE c[i] + SumLanes(c, i + 1)

\* PackedColor::sum
sum(c) == SumLanes(c, 0)

\* ------------------------------------------------------------ the scene
\* The camera ray of sample s, and the ray of the path of sample s after j
\* scatterings: every ray has a direction of its own.
Dir(s, j) == 1 + s * Stride + j
SampleOf(ray) == (ray.direction - 1) \div Stride
BounceOf(ray) == (ray.direction - 1) % Stride
CameraRay(s) == RayNew(0, Dir(s, 0))

Fates(kinds, d) ==
    {[kind |-> "forever", at |-> 0]}
        \cup {[kind |-> kd, at |-> j] : kd \in kinds, j \in 0 .. (d - 1)}

\* Scene::hit as seen by the tracers: does the ray hit any object in range
SceneHits(ray) ==
    /\ ray.direction # 0
    /\ SampleOf(ray) \in DOMAIN scene
    /\ LET f == scene[SampleOf(ray)]
       IN ~(f.kind = "miss" /\ f.at = BounceOf(ray))

\* albedo of the material that the ray hits
Attenuation(ray) == 2 + ((SampleOf(ray) + BounceOf(ray)) % 2)

\* HitRecord::hit_result -> Material::get_hit_result
hit_result(ray) ==
    LET f == scene[SampleOf(ray)]
    IN [attenuation |-> Attenuation(ray),
        scattered_ray |-> IF f.kind = "absorb" /\ f.at = BounceOf(ray)
                          THEN None
                          ELSE Some(RayNew(ray.direction, ray.direction + 1))]

\* the sky gradient, a function of the direction of the ray
SkyTable == <<5, 7, 11>>
sky_color(direction) == SkyTable[(direction % 3) + 1]

\* ------------------------------------------------------------ one bounce of one chunk
\* The object loop and finalize: lane i holds a hit record iff the lane is
\* enabled in the batch given to hit_packed and the ray hits an object.
hit_records_of(rays) ==
    [i \in Lanes |->
        IF rays.enabled[i] /\ SceneHits(at_including_disabled(rays, i))
        THEN Some(at_including_disabled(rays, i))
        ELSE None]

\* DispatchLane with the hit_sky mark of the no-hit branch left out
DispatchLane_NoHitSky(st, hr, i) ==
    IF IsSome(hr[i])
    THEN LET res == hit_result(Unwrap(at(st.rays, i)))
             col == [st.color EXCEPT ![i] = st.color[i] * res.attenuation]
         IN IF IsSome(res.scattered_ray)
            THEN [rays |-> update(st.rays, i, Unwrap(res.scattered_ray)),
                  color |-> col, hit_sky |-> st.hit_sky]
            ELSE [rays |-> disable(st.rays, i), color |-> col, hit_sky |-> st.hit_sky]
    ELSE [rays |-> disable(st.rays, i), color |-> st.color, hit_sky |-> st.hit_sky]

\* body of `for i in 0..N` of the material dispatch; st = [rays, color, hit_sky]
DispatchLane(st, hr, i) ==
    IF IsSome(hr[i])
    THEN LET res == hit_result(Unwrap(at(st.rays, i)))
             col == [st.color EXCEPT ![i] = st.color[i] * res.attenuation]
         IN IF IsSome(res.scattered_ray)
            THEN [rays |-> update(st.rays, i, Unwrap(res.scattered_ray)),
                  color |-> col, hit_sky |-> st.hit_sky]
            ELSE [rays |-> disable(st.rays, i), color |-> col, hit_sky |-> st.hit_sky]
    ELSE [rays |-> disable(st.rays, i), color |-> st.color,
          hit_sky |-> [st.hit_sky EXCEPT ![i] = TRUE]]

RECURSIVE DispatchFrom(_, _, _)
DispatchFrom(st, hr, i) ==
    IF i >= N THEN st ELSE DispatchFrom(DispatchLane(st, hr, i), hr, i + 1)

\* hit tests, finalize and dispatch of one chunk
BounceChunk(rays, color, hit_sky) ==
    DispatchFrom([rays |-> rays, color |-> color, hit_sky |-> hit_sky],
                 hit_records_of(rays), 0)

\* the sky colour of every lane of a batch
sky_colors(rays) == [i \in Lanes |-> sky_color(rays.directions[i])]

PackedMul(a, b) == [i \in Lanes |-> a[i] * b[i]]
PackedAdd(a, b) == [i \in Lanes |-> a[i] + b[i]]

Max(a, b) == IF a > b THEN a ELSE b

\* ------------------------------------------------------------ initial state
\* TileRenderTask::render_vectorized / render_vectorized2: the samples of a
\* pixel are collected N at a time into chunks; chunk c holds the samples
\* c*N .. c*N+N-1, and the last chunk may be partial.
ChunkOf(c, ns) ==
    from_iter([q \in 1 .. Max(0, Min(N, ns - c * N)) |-> CameraRay(c * N + q - 1)])

\* number of chunks that `.chunks(N)` makes of ns samples
ChunkCount(ns) == (ns + N - 1) \div N

DefaultRays == [origins |-> DefaultVec, directions |-> DefaultVec,
                enabled |-> [i \in Lanes |-> FALSE]]
NoChunks == [c \in {} |-> 0]

TraceIdle ==
    /\ t_ray = RayNew(0, 0)
    /\ t_depth = 0
    /\ t_stack = << >>
    /\ t_hit_calls = 0
    /\ t_result = None

V1Idle ==
    /\ v1_j = 0
    /\ v1_rays = DefaultRays
    /\ v1_color = broadcast_scaler(Black)
    /\ v1_hit_sky = [i \in Lanes |-> FALSE]
    /\ v1_k = 0
    /\ v1_out = << >>
    /\ packed_color = broadcast_scaler(Black)
    /\ result1 = None

V2Idle ==
    /\ ray_buffers = [b \in 0 .. 1 |-> NoChunks]
    /\ color2 = [b \in 0 .. 1 |-> NoChunks]
    /\ hit_sky2 = [b \in 0 .. 1 |-> NoChunks]
    /\ last_active_chunk2 = 0
    /\ k2 = 0
    /\ result2 = None

V3Idle ==
    /\ rays3 = NoChunks
    /\ color3 = NoChunks
    /\ hit_sky3 = NoChunks
    /\ last_active_chunk3 = 0
    /\ k3 = 0
    /\ front_index = [chuck_index |-> 0, slot_index |-> N]
    /\ back_index = [chuck_index |-> 0, slot_index |-> 0]
    /\ swaps3 = 0
    /\ result3 = None

HitIdle ==
    /\ h_rays = DefaultRays
    /\ hit_records = None
    /\ h_calls = << >>
    /\ h_last = << >>

OrderIdle ==
    /\ o_tracer = 0
    /\ o_j = 0
    /\ o_obj = 0

TraceRaysIdle ==
    /\ ray_stats = << >>
    /\ tr_k = 0
    /\ tr_i = 0
    /\ tr_out = None
    /\ tr_ref = << >>

RenderIdle ==
    /\ r_pc = "idle"
    /\ r_input = [image_width |-> 0, image_height |-> 0, block_size |-> 1, num_threads |-> 1]
    /\ task_queue = << >>
    /\ update_queue = << >>
    /\ w_pc = << >>
    /\ w_task = << >>
    /\ results = << >>
    /\ r_joined = 0
    /\ image = << >>
    /\ r_count = << >>

\* the samples of a pixel in chunks, a depth_limit, and a scene in which a
\* path ends in one of the given kinds or goes on
Inputs(kinds) ==
    \E ns \in 0 .. MaxSamples :
      \E d \in 0 .. MaxDepth :
        /\ rays_in = [c \in 0 .. (ChunkCount(ns) - 1) |-> ChunkOf(c, ns)]
        /\ depth_limit = d
        /\ scene \in [0 .. (ns - 1) -> Fates(kinds, d)]

\* the scenes of the program: Lambertian, Metal and Dielectric always scatter,
\* so a path ends only by missing every object
Init ==
    /\ pc = "v1_call"
    /\ Inputs({"miss"})
    /\ TraceIdle /\ V1Idle /\ V2Idle /\ V3Idle /\ OrderIdle /\ RenderIdle /\ TraceRaysIdle /\ HitIdle

\* scenes with a Material whose get_hit_result returns HitResult::new_absorbed
InitAbsorb ==
    /\ pc = "v1_call"
    /\ Inputs({"miss", "absorb"})
    /\ TraceIdle /\ V1Idle /\ V2Idle /\ V3Idle /\ OrderIdle /\ RenderIdle /\ TraceRaysIdle /\ HitIdle

NumChunks == Cardinality(DOMAIN rays_in)

\* ------------------------------------------------------------ trace_vectorized
\* TileRenderTask::render_vectorized calls trace_vectorized for the next chunk:
\* the locals of the call are set up.
V1Call ==
    /\ pc = "v1_call"
    /\ v1_j < NumChunks
    /\ v1_rays' = rays_in[v1_j]
    /\ v1_color' = assign_masked(broadcast_scaler(Black), broadcast_scaler(White),
                                 rays_in[v1_j].enabled)
    /\ v1_hit_sky' = [i \in Lanes |-> FALSE]
    /\ v1_k' = 0
    /\ pc' = "v1_loop"
    /\ UNCHANGED <<v1_j, v1_out, packed_color, result1>>
    /\ UNCHANGED <<rays_in, depth_limit, scene, traceVars, v2Vars, v3Vars, hitVars, orderVars, renderVars, raysVars>>

\* one iteration of `for _ in 0..depth_limit`
V1Bounce ==
    /\ pc = "v1_loop"
    /\ v1_k < depth_limit
    /\ any_enabled(v1_rays)
    /\ LET st == BounceChunk(v1_rays, v1_color, v1_hit_sky)
       IN /\ v1_rays' = st.rays
          /\ v1_color' = st.color
          /\ v1_hit_sky' = st.hit_sky
    /\ v1_k' = v1_k + 1
    /\ UNCHANGED <<pc, v1_j, v1_out, packed_color, result1>>
    /\ UNCHANGED <<rays_in, depth_limit, scene, traceVars, v2Vars, v3Vars, hitVars, orderVars, renderVars, raysVars>>

\* V1Final without the black of the lanes that are still enabled
V1Final_NoBlack(rays, color, hit_sky) ==
    assign_masked(color, PackedMul(color, sky_colors(rays)), hit_sky)

\* what trace_vectorized does after the bounce loop
V1Final(rays, color, hit_sky) ==
    LET sky == sky_colors(rays)
        c1 == assign_masked(color, PackedMul(color, sky), hit_sky)
    IN assign_masked(c1, broadcast_scaler(Black), rays.enabled)

\* the loop is left (budget used up, or no lane enabled), the sky colour and
\* black are applied, and the caller adds the returned colour to packed_color
V1Return ==
    /\ pc = "v1_loop"
    /\ (v1_k >= depth_limit \/ ~any_enabled(v1_rays))
    /\ v1_color' = V1Final(v1_rays, v1_color, v1_hit_sky)
    /\ v1_out' = Append(v1_out, v1_color')
    /\ packed_color' = PackedAdd(packed_color, v1_color')
    /\ v1_j' = v1_j + 1
    /\ pc' = "v1_call"
    /\ UNCHANGED <<v1_rays, v1_hit_sky, v1_k, result1>>
    /\ UNCHANGED <<rays_in, depth_limit, scene, traceVars, v2Vars, v3Vars, hitVars, orderVars, renderVars, raysVars>>

\* all chunks traced: packed_color.sum()
V1Sum ==
    /\ pc = "v1_call"
    /\ v1_j >= NumChunks
    /\ result1' = Some(sum(packed_color))
    /\ pc' = "v2_call"
    /\ UNCHANGED <<v1_j, v1_rays, v1_color, v1_hit_sky, v1_k, v1_out, packed_color>>
    /\ UNCHANGED <<rays_in, depth_limit, scene, traceVars, v2Vars, v3Vars, hitVars, orderVars, renderVars, raysVars>>

\* ------------------------------------------------------------ trace_vectorized2
Chunks == 0 .. (NumChunks - 1)

V2Call ==
    /\ pc = "v2_call"
    /\ ray_buffers' = [b \in 0 .. 1 |->
                         IF b = 0 THEN rays_in
                         ELSE [c \in Chunks |-> PackedRaysNew(DefaultVec, DefaultVec)]]
    /\ color2' = [b \in 0 .. 1 |-> [c \in Chunks |-> broadcast_scaler(White)]]
    /\ hit_sky2' = [b \in 0 .. 1 |-> [c \in Chunks |-> [i \in Lanes |-> FALSE]]]
    /\ last_active_chunk2' = NumChunks
    /\ k2' = 0
    /\ pc' = "v2_loop"
    /\ UNCHANGED result2
    /\ UNCHANGED <<rays_in, depth_limit, scene, traceVars, v1Vars, v3Vars, hitVars, orderVars, renderVars, raysVars>>

\* `for j in 0..last_active_chunk`: hit tests and dispatch of the active chunks;
\* b = [rays, color, hit_sky], each a function of the chunk index
DispatchChunks(b, last_active_chunk) ==
    LET st(j) == BounceChunk(b.rays[j], b.color[j], b.hit_sky[j])
    IN [rays |-> [j \in DOMAIN b.rays |->
                    IF j < last_active_chunk THEN st(j).rays ELSE b.rays[j]],
        color |-> [j \in DOMAIN b.rays |->
                    IF j < last_active_chunk THEN st(j).color ELSE b.color[j]],
        hit_sky |-> [j \in DOMAIN b.rays |->
                    IF j < last_active_chunk THEN st(j).hit_sky ELSE b.hit_sky[j]]]

\* one copy of the shuffle: lane (i, j) of the current buffers goes to the
\* output position of the next buffers, which then advances;
\* o = [rays, color, hit_sky, output_chunk, output_slot]
ShuffleCopy(cur, o, i, j, enabled) ==
    LET ray == at_including_disabled(cur.rays[i], j)
        oc == o.output_chunk
        os == o.output_slot
    IN [rays |-> [o.rays EXCEPT ![oc] =
                    IF enabled THEN update(@, os, ray)
                    ELSE update_with_enable(@, os, ray, FALSE)],
        color |-> [o.color EXCEPT ![oc][os] = cur.color[i][j]],
        hit_sky |-> [o.hit_sky EXCEPT ![oc][os] = cur.hit_sky[i][j]],
        output_chunk |-> IF os + 1 >= N THEN oc + 1 ELSE oc,
        output_slot |-> IF os + 1 >= N THEN 0 ELSE os + 1]

\* `for i in 0..last_active_chunk { for j in 0..N {..} }` over the flattened
\* position p = i * N + j, copying the lanes whose enabled flag is `enabled`
RECURSIVE ShufflePass(_, _, _, _, _)
ShufflePass(cur, o, p, last_active_chunk, enabled) ==
    IF p >= last_active_chunk * N THEN o
    ELSE LET i == p \div N
             j == p % N
         IN ShufflePass(cur,
                        IF is_enabled(cur.rays[i], j) = enabled
                        THEN ShuffleCopy(cur, o, i, j, enabled) ELSE o,
                        p + 1, last_active_chunk, enabled)

\* new_last_active_chunk that counts the chunk of the output position always
new_last_active_chunk_Plus1(o) == o.output_chunk + 1

new_last_active_chunk(o) ==
    IF o.output_slot = 0 THEN o.output_chunk ELSE o.output_chunk + 1

\* one iteration of `for k in 0..depth_limit`: dispatch, then shuffle
V2Bounce ==
    /\ pc = "v2_loop"
    /\ k2 < depth_limit
    /\ last_active_chunk2 # 0
    /\ LET selector == k2 % 2
           next_selector == 1 - selector
           cur == DispatchChunks([rays |-> ray_buffers[selector],
                                  color |-> color2[selector],
                                  hit_sky |-> hit_sky2[selector]], last_active_chunk2)
           o0 == [rays |-> ray_buffers[next_selector], color |-> color2[next_selector],
                  hit_sky |-> hit_sky2[next_selector], output_chunk |-> 0, output_slot |-> 0]
           o1 == ShufflePass(cur, o0, 0, last_active_chunk2, TRUE)
           o2 == ShufflePass(cur, o1, 0, last_active_chunk2, FALSE)
       IN /\ ray_buffers' = [b \in 0 .. 1 |-> IF b = selector THEN cur.rays ELSE o2.rays]
          /\ color2' = [b \in 0 .. 1 |-> IF b = selector THEN cur.color ELSE o2.color]
          /\ hit_sky2' = [b \in 0 .. 1 |-> IF b = selector THEN cur.hit_sky ELSE o2.hit_sky]
          /\ last_active_chunk2' = new_last_active_chunk(o1)
    /\ k2' = k2 + 1
    /\ UNCHANGED <<pc, result2>>
    /\ UNCHANGED <<rays_in, depth_limit, scene, traceVars, v1Vars, v3Vars, hitVars, orderVars, renderVars, raysVars>>

RECURSIVE SumChunks(_, _)
SumChunks(colors, j) ==
    IF j >= Cardinality(DOMAIN colors) THEN broadcast_scaler(Black)
    ELSE PackedAdd(colors[j], SumChunks(colors, j + 1))

\* the buffer set that trace_vectorized2 reads after the loop
V2Selector == (NumChunks - 1) % 2

\* the sky colour of chunk j is taken from the directions of the input rays[j]
V2Final(selector) ==
    [j \in Chunks |->
        LET c1 == assign_masked(color2[selector][j],
                                PackedMul(color2[selector][j], sky_colors(rays_in[j])),
                                hit_sky2[selector][j])
        IN assign_masked(c1, broadcast_scaler(Black), ray_buffers[selector][j].enabled)]

V2Return ==
    /\ pc = "v2_loop"
    /\ (k2 >= depth_limit \/ last_active_chunk2 = 0)
    /\ NumChunks > 0
    /\ color2' = [color2 EXCEPT ![V2Selector] = V2Final(V2Selector)]
    /\ result2' = Some(sum(SumChunks(color2'[V2Selector], 0)))
    /\ pc' = "v3_call"
    /\ UNCHANGED <<ray_buffers, hit_sky2, last_active_chunk2, k2>>
    /\ UNCHANGED <<rays_in, depth_limit, scene, traceVars, v1Vars, v3Vars, hitVars, orderVars, renderVars, raysVars>>

\* rays.len() = 0: `rays.len() - 1` overflows; the call panics when overflow
\* checks are compiled in, otherwise the index wraps to an odd number, buffer
\* set 1 is read and the sum over no chunks is black
V2ReturnEmpty ==
    /\ pc = "v2_loop"
    /\ NumChunks = 0
    /\ \E r \in {Panic, Black} : result2' = Some(r)
    /\ pc' = "v3_call"
    /\ UNCHANGED <<ray_buffers, color2, hit_sky2, last_active_chunk2, k2>>
    /\ UNCHANGED <<rays_in, depth_limit, scene, traceVars, v1Vars, v3Vars, hitVars, orderVars, renderVars, raysVars>>

\* ------------------------------------------------------------ CombinedIndex
CombinedIndex(c, sl) == [chuck_index |-> c, slot_index |-> sl]

before_first(rays) == CombinedIndex(0, N)

\* after_last that starts at the first slot of the last chunk
after_last_LastChunk(rays) == CombinedIndex(Cardinality(DOMAIN rays) - 1, 0)

after_last(rays) == CombinedIndex(Cardinality(DOMAIN rays), 0)

increment(self, rays) ==
    IF self.slot_index >= N
    THEN IF Cardinality(DOMAIN rays) > 0 THEN Some(CombinedIndex(0, 0)) ELSE None
    ELSE IF self.slot_index < N - 1
    THEN Some(CombinedIndex(self.chuck_index, self.slot_index + 1))
    ELSE IF self.chuck_index < Cardinality(DOMAIN rays) - 1
    THEN Some(CombinedIndex(self.chuck_index + 1, 0))
    ELSE None

decrement(self, rays) ==
    IF self.slot_index > 0
    THEN Some(CombinedIndex(self.chuck_index, self.slot_index - 1))
    ELSE IF self.chuck_index > 0
    THEN Some(CombinedIndex(self.chuck_index - 1, N - 1))
    ELSE None

\* the `while let Some(i) = index` loop of next_disabled; ix is the value of
\* `index` in this iteration
RECURSIVE next_disabled_loop(_, _)
next_disabled_loop(index, rays) ==
    CHOOSE found \in
        {IF IsSome(ix)
         THEN IF ~is_enabled(rays[Unwrap(ix).chuck_index], Unwrap(ix).slot_index)
              THEN ix
              ELSE next_disabled_loop(increment(Unwrap(ix), rays), rays)
         ELSE None : ix \in {index}} : TRUE

next_disabled(self, rays) == next_disabled_loop(increment(self, rays), rays)

\* the `while let Some(i) = index` loop of previous_enabled
RECURSIVE previous_enabled_loop(_, _)
previous_enabled_loop(index, rays) ==
    CHOOSE found \in
        {IF IsSome(ix)
         THEN IF is_enabled(rays[Unwrap(ix).chuck_index], Unwrap(ix).slot_index)
              THEN ix
              ELSE previous_enabled_loop(decrement(Unwrap(ix), rays), rays)
         ELSE None : ix \in {index}} : TRUE

previous_enabled(self, rays) == previous_enabled_loop(decrement(self, rays), rays)

\* ------------------------------------------------------------ trace_vectorized3
V3Call ==
    /\ pc = "v3_call"
    /\ rays3' = rays_in
    /\ color3' = [c \in Chunks |-> broadcast_scaler(White)]
    /\ hit_sky3' = [c \in Chunks |-> [i \in Lanes |-> FALSE]]
    /\ last_active_chunk3' = NumChunks
    /\ k3' = 0
    /\ pc' = "v3_loop"
    /\ UNCHANGED <<front_index, back_index, swaps3, result3>>
    /\ UNCHANGED <<rays_in, depth_limit, scene, traceVars, v1Vars, v2Vars, hitVars, orderVars, renderVars, raysVars>>

\* first half of an iteration of `for _ in 0..depth_limit`: hit tests and
\* dispatch of the active chunks, then the two cursors are set up
V3Dispatch ==
    /\ pc = "v3_loop"
    /\ k3 < depth_limit
    /\ last_active_chunk3 # 0
    /\ LET cur == DispatchChunks([rays |-> rays3, color |-> color3, hit_sky |-> hit_sky3],
                                 last_active_chunk3)
       IN /\ rays3' = cur.rays
          /\ color3' = cur.color
          /\ hit_sky3' = cur.hit_sky
    /\ front_index' = before_first(rays3)
    /\ back_index' = after_last(rays3)
    /\ swaps3' = 0
    /\ pc' = "v3_shuffle"
    /\ UNCHANGED <<last_active_chunk3, k3, result3>>
    /\ UNCHANGED <<rays_in, depth_limit, scene, traceVars, v1Vars, v2Vars, hitVars, orderVars, renderVars, raysVars>>

\* SwapLanes that swaps the rays and the colours but leaves the hit_sky flags
SwapLanes_KeepHitSky(b, front, back) ==
    LET fc == front.chuck_index
        fs == front.slot_index
        bc == back.chuck_index
        bs == back.slot_index
        front_ray == at_including_disabled(b.rays[fc], fs)
        back_ray == at_including_disabled(b.rays[bc], bs)
        r1 == [b.rays EXCEPT ![fc] = update_with_enable(@, fs, back_ray, TRUE)]
        r2 == [r1 EXCEPT ![bc] = update_with_enable(@, bs, front_ray, FALSE)]
        c1 == [b.color EXCEPT ![fc][fs] = b.color[bc][bs]]
        c2 == [c1 EXCEPT ![bc][bs] = b.color[fc][fs]]
    IN [rays |-> r2, color |-> c2, hit_sky |-> b.hit_sky]

\* swap of the rays, colours and hit_sky flags at the front and back index
SwapLanes(b, front, back) ==
    LET fc == front.chuck_index
        fs == front.slot_index
        bc == back.chuck_index
        bs == back.slot_index
        front_ray == at_including_disabled(b.rays[fc], fs)
        back_ray == at_including_disabled(b.rays[bc], bs)
        r1 == [b.rays EXCEPT ![fc] = update_with_enable(@, fs, back_ray, TRUE)]
        r2 == [r1 EXCEPT ![bc] = update_with_enable(@, bs, front_ray, FALSE)]
        front_color == b.color[fc][fs]
        back_color == b.color[bc][bs]
        c1 == [b.color EXCEPT ![fc][fs] = back_color]
        c2 == [c1 EXCEPT ![bc][bs] = front_color]
        front_hit_sky == b.hit_sky[fc][fs]
        back_hit_sky == b.hit_sky[bc][bs]
        h1 == [b.hit_sky EXCEPT ![fc][fs] = back_hit_sky]
        h2 == [h1 EXCEPT ![bc][bs] = front_hit_sky]
    IN [rays |-> r2, color |-> c2, hit_sky |-> h2]

\* V3Swap that does not keep the new back cursor
V3Swap_KeepsBack ==
    /\ pc = "v3_shuffle"
    /\ LET f == next_disabled(front_index, rays3)
           b == previous_enabled(back_index, rays3)
       IN /\ IsSome(f)
          /\ IsSome(b)
          /\ Unwrap(f).chuck_index < Unwrap(b).chuck_index
          /\ front_index' = Unwrap(f)
          /\ back_index' = back_index
          /\ LET sw == SwapLanes([rays |-> rays3, color |-> color3, hit_sky |-> hit_sky3],
                                 Unwrap(f), Unwrap(b))
             IN /\ rays3' = sw.rays
                /\ color3' = sw.color
                /\ hit_sky3' = sw.hit_sky
    /\ swaps3' = swaps3 + 1
    /\ UNCHANGED <<pc, last_active_chunk3, k3, result3>>
    /\ UNCHANGED <<rays_in, depth_limit, scene, traceVars, v1Vars, v2Vars, hitVars, orderVars, renderVars, raysVars>>

\* an iteration of the partition `loop` that swaps two lanes
V3Swap ==
    /\ pc = "v3_shuffle"
    /\ LET f == next_disabled(front_index, rays3)
           b == previous_enabled(back_index, rays3)
       IN /\ IsSome(f)
          /\ IsSome(b)
          /\ Unwrap(f).chuck_index < Unwrap(b).chuck_index
          /\ front_index' = Unwrap(f)
          /\ back_index' = Unwrap(b)
          /\ LET sw == SwapLanes([rays |-> rays3, color |-> color3, hit_sky |-> hit_sky3],
                                 Unwrap(f), Unwrap(b))
             IN /\ rays3' = sw.rays
                /\ color3' = sw.color
                /\ hit_sky3' = sw.hit_sky
    /\ swaps3' = swaps3 + 1
    /\ UNCHANGED <<pc, last_active_chunk3, k3, result3>>
    /\ UNCHANGED <<rays_in, depth_limit, scene, traceVars, v1Vars, v2Vars, hitVars, orderVars, renderVars, raysVars>>

\* an iteration of the partition `loop` that breaks: it sets last_active_chunk
\* and ends the bounce
V3Break ==
    /\ pc = "v3_shuffle"
    /\ LET f == next_disabled(front_index, rays3)
           b == previous_enabled(back_index, rays3)
       IN \/ /\ ~IsSome(f)
             /\ last_active_chunk3' = Cardinality(DOMAIN rays3)
             /\ UNCHANGED <<front_index, back_index>>
          \/ /\ IsSome(f)
             /\ ~IsSome(b)
             /\ last_active_chunk3' = 0
             /\ front_index' = Unwrap(f)
             /\ UNCHANGED back_index
          \/ /\ IsSome(f)
             /\ IsSome(b)
             /\ Unwrap(f).chuck_index >= Unwrap(b).chuck_index
             /\ last_active_chunk3' = Unwrap(b).chuck_index + 1
             /\ front_index' = Unwrap(f)
             /\ back_index' = Unwrap(b)
    /\ k3' = k3 + 1
    /\ pc' = "v3_loop"
    /\ UNCHANGED <<rays3, color3, hit_sky3, swaps3, result3>>
    /\ UNCHANGED <<rays_in, depth_limit, scene, traceVars, v1Vars, v2Vars, hitVars, orderVars, renderVars, raysVars>>

V3Final ==
    [j \in Chunks |->
        LET c1 == assign_masked(color3[j], PackedMul(color3[j], sky_colors(rays3[j])),
                                hit_sky3[j])
        IN assign_masked(c1, broadcast_scaler(Black), rays3[j].enabled)]

V3Return ==
    /\ pc = "v3_loop"
    /\ (k3 >= depth_limit \/ last_active_chunk3 = 0)
    /\ color3' = V3Final
    /\ result3' = Some(sum(SumChunks(color3', 0)))
    /\ pc' = "done"
    /\ UNCHANGED <<rays3, hit_sky3, last_active_chunk3, k3, front_index, back_index, swaps3>>
    /\ UNCHANGED <<rays_in, depth_limit, scene, traceVars, v1Vars, v2Vars, hitVars, orderVars, renderVars, raysVars>>

\* ------------------------------------------------------------ specification
Next ==
    \/ V1Call \/ V1Bounce \/ V1Return \/ V1Sum
    \/ V2Call \/ V2Bounce \/ V2Return \/ V2ReturnEmpty
    \/ V3Call \/ V3Dispatch \/ V3Swap \/ V3Break \/ V3Return

Spec == Init /\ [][Next]_vars

SpecAbsorb == InitAbsorb /\ [][Next]_vars

\* ------------------------------------------------------------ Scene::trace
\* Scene::trace(ray, depth_limit), one call or return of the recursion per
\* step.  t_stack holds the attenuations of the callers that wait for the
\* value of their recursive call, t_hit_calls counts the calls of Scene::hit.
InitTrace ==
    /\ pc = "trace_call"
    /\ \E s \in 0 .. (MaxSamples - 1) :
         /\ t_ray = CameraRay(s)
         /\ scene \in [{s} -> Fates({"miss", "absorb"}, MaxDepth)]
    /\ depth_limit \in 0 .. MaxDepth
    /\ t_depth = depth_limit
    /\ t_stack = << >>
    /\ t_hit_calls = 0
    /\ t_result = None
    /\ rays_in = NoChunks
    /\ V1Idle /\ V2Idle /\ V3Idle /\ OrderIdle /\ RenderIdle /\ TraceRaysIdle /\ HitIdle

\* TraceBlack without the budget test: the ray is intersected all the same
TraceBlack_HitsFirst ==
    /\ pc = "trace_call"
    /\ t_depth = 0
    /\ t_hit_calls' = t_hit_calls + 1
    /\ t_result' = Some(IF SceneHits(t_ray) THEN Black ELSE sky_color(t_ray.direction))
    /\ pc' = "trace_ret"
    /\ UNCHANGED <<t_ray, t_depth, t_stack>>
    /\ UNCHANGED <<rays_in, depth_limit, scene, v1Vars, v2Vars, v3Vars, hitVars, orderVars, renderVars, raysVars>>

\* `if depth_limit == 0 { Color::black() }`
TraceBlack ==
    /\ pc = "trace_call"
    /\ t_depth = 0
    /\ t_result' = Some(Black)
    /\ pc' = "trace_ret"
    /\ UNCHANGED <<t_ray, t_depth, t_stack, t_hit_calls>>
    /\ UNCHANGED <<rays_in, depth_limit, scene, v1Vars, v2Vars, v3Vars, hitVars, orderVars, renderVars, raysVars>>

\* the else branch: self.hit(..) is called and matched
TraceHit ==
    /\ pc = "trace_call"
    /\ t_depth # 0
    /\ t_hit_calls' = t_hit_calls + 1
    /\ IF SceneHits(t_ray)
       THEN LET res == hit_result(t_ray)
            IN IF IsSome(res.scattered_ray)
               THEN /\ t_stack' = Append(t_stack, res.attenuation)
                    /\ t_ray' = Unwrap(res.scattered_ray)
                    /\ t_depth' = t_depth - 1
                    /\ UNCHANGED <<pc, t_result>>
               ELSE /\ t_result' = Some(res.attenuation)
                    /\ pc' = "trace_ret"
                    /\ UNCHANGED <<t_ray, t_depth, t_stack>>
       ELSE /\ t_result' = Some(sky_color(t_ray.direction))
            /\ pc' = "trace_ret"
            /\ UNCHANGED <<t_ray, t_depth, t_stack>>
    /\ UNCHANGED <<rays_in, depth_limit, scene, v1Vars, v2Vars, v3Vars, hitVars, orderVars, renderVars, raysVars>>

\* a recursive call returns: `self.trace(..) * hit_result.attenuation()`
TraceReturn ==
    /\ pc = "trace_ret"
    /\ t_stack # << >>
    /\ t_result' = Some(Unwrap(t_result) * t_stack[Len(t_stack)])
    /\ t_stack' = SubSeq(t_stack, 1, Len(t_stack) - 1)
    /\ UNCHANGED <<pc, t_ray, t_depth, t_hit_calls>>
    /\ UNCHANGED <<rays_in, depth_limit, scene, v1Vars, v2Vars, v3Vars, hitVars, orderVars, renderVars, raysVars>>

NextTrace == TraceBlack \/ TraceHit \/ TraceReturn

SpecTrace == InitTrace /\ [][NextTrace]_vars

\* ------------------------------------------------------------ f64 and Vec3
\* Numbers of the intersection code are integers, with two more values:
NaN == 0 - 999999           \* not a number: every comparison with it is false
Infinity == 1000000         \* f64::INFINITY
MaxCalls == 2       \* bound: largest number of PackedHitRecords::update calls
MaxObjects == 2     \* bound: largest number of hit_packed calls on one accumulator

FNeg(x) == IF x = NaN THEN NaN ELSE 0 - x
FAdd(x, y) == IF x = NaN \/ y = NaN THEN NaN ELSE x + y
FSub(x, y) == IF x = NaN \/ y = NaN THEN NaN ELSE x - y
FMul(x, y) == IF x = NaN \/ y = NaN THEN NaN ELSE x * y
FGe(x, y) == x # NaN /\ y # NaN /\ x >= y
FLe(x, y) == x # NaN /\ y # NaN /\ x <= y
FLt(x, y) == x # NaN /\ y # NaN /\ x < y
\* f64::sqrt; the inputs of the model make every discriminant a square or negative
FSqrt(x) == IF x = NaN \/ x < 0 THEN NaN ELSE CHOOSE r \in 0 .. x : r * r = x

Vec3(x, y) == [x |-> x, y |-> y]
VSub(a, b) == Vec3(FSub(a.x, b.x), FSub(a.y, b.y))
VAdd(a, b) == Vec3(FAdd(a.x, b.x), FAdd(a.y, b.y))
VScale(a, k) == Vec3(FMul(a.x, k), FMul(a.y, k))
dot(a, b) == FAdd(FMul(a.x, b.x), FMul(a.y, b.y))
length_squared(a) == dot(a, a)

\* the range 0.001..f64::INFINITY given to every intersection test: an integer
\* is >= 0.001 iff thousand times it is >= 1
contains(t) == t # NaN /\ 1000 * t >= 1 /\ t < Infinity

\* simd_inside(values, &(0.001..f64::INFINITY))
simd_inside(values) == [i \in Lanes |-> contains(values[i])]

\* ------------------------------------------------------------ PackedHitRecords
NoMaterial == 0     \* the null reference of PackedOptionalReference::nones()

PackedHitRecords_default ==
    [normals |-> [i \in Lanes |-> Vec3(0, 0)],
     t |-> [i \in Lanes |-> Infinity],
     hits |-> [i \in Lanes |-> FALSE],
     materials |-> [i \in Lanes |-> NoMaterial]]

\* update_mask_of with `<` in place of `<=`
update_mask_of_Strict(self, t, valid_mask) ==
    [i \in Lanes |-> valid_mask[i] /\ FLt(t[i], self.t[i])]

\* `*valid_mask & (t.simd_le(self.t))`
update_mask_of(self, t, valid_mask) ==
    [i \in Lanes |-> valid_mask[i] /\ FLe(t[i], self.t[i])]

\* PackedHitRecords_update that stores every valid hit, nearer or not
PackedHitRecords_update_NoCompare(self, outward_normals, t, valid_mask, material) ==
    [normals |-> masked_select(self.normals, outward_normals, valid_mask),
     t |-> masked_select(self.t, t, valid_mask),
     hits |-> [i \in Lanes |-> self.hits[i] \/ valid_mask[i]],
     materials |-> masked_select(self.materials, [i \in Lanes |-> material], valid_mask)]

PackedHitRecords_update(self, outward_normals, t, valid_mask, material) ==
    LET update_mask == update_mask_of(self, t, valid_mask)
    IN [normals |-> masked_select(self.normals, outward_normals, update_mask),
        t |-> masked_select(self.t, t, update_mask),
        hits |-> [i \in Lanes |-> self.hits[i] \/ update_mask[i]],
        materials |-> masked_select(self.materials, [i \in Lanes |-> material], update_mask)]

\* PackedOptionalReference::at: the null reference reads as None
PackedOptionalReference_at(self, index) ==
    IF self[index] = NoMaterial THEN None ELSE Some(self[index])

\* PackedHitRecords_at without the test of the hits mask
PackedHitRecords_at_NoHitsTest(self, index) ==
    LET material == PackedOptionalReference_at(self.materials, index)
    IN IF IsSome(material)
       THEN [panicked |-> FALSE,
             value |-> Some([normal |-> self.normals[index], t |-> self.t[index],
                             material |-> Unwrap(material)])]
       ELSE [panicked |-> TRUE, value |-> None]

\* PackedHitRecords::at: the Option<HitRecord> it returns, or the panic of
\* `self.materials.at(index).unwrap()`
PackedHitRecords_at(self, index) ==
    IF self.hits[index]
    THEN LET material == PackedOptionalReference_at(self.materials, index)
         IN IF IsSome(material)
            THEN [panicked |-> FALSE,
                  value |-> Some([normal |-> self.normals[index], t |-> self.t[index],
                                  material |-> Unwrap(material)])]
            ELSE [panicked |-> TRUE, value |-> None]
    ELSE [panicked |-> FALSE, value |-> None]

\* ------------------------------------------------------------ Sphere
\* per-lane values of Sphere::hit_packed; rays has vector origins and directions
center_offset(sphere, rays, i) == VSub(rays.origins[i], sphere.center)
half_b(sphere, rays, i) == dot(center_offset(sphere, rays, i), rays.directions[i])
discriminant(sphere, rays, i) ==
    LET a == length_squared(rays.directions[i])
        c == FSub(length_squared(center_offset(sphere, rays, i)), sphere.radius * sphere.radius)
    IN FSub(FMul(half_b(sphere, rays, i), half_b(sphere, rays, i)), FMul(a, c))
\* 1 / a: the directions of the model have length 1, so the quotient is exact
inverse_a(rays, i) == 1 \div length_squared(rays.directions[i])
root1(sphere, rays, i) ==
    FMul(FSub(FNeg(half_b(sphere, rays, i)), FSqrt(discriminant(sphere, rays, i))),
         inverse_a(rays, i))
root2(sphere, rays, i) ==
    FMul(FAdd(FNeg(half_b(sphere, rays, i)), FSqrt(discriminant(sphere, rays, i))),
         inverse_a(rays, i))

\* the arguments that Sphere::hit_packed gives to PackedHitRecords::update,
\* and whether it calls update at all
hit_packed_args(sphere, rays) ==
    LET discriminant_positive ==
            [i \in Lanes |-> FGe(discriminant(sphere, rays, i), 0) /\ rays.enabled[i]]
        r1 == [i \in Lanes |-> root1(sphere, rays, i)]
        r2 == [i \in Lanes |-> root2(sphere, rays, i)]
        root1_valid == simd_inside(r1)
        root2_valid == simd_inside(r1)
        root == masked_select(r2, r1, root1_valid)
        valid == [i \in Lanes |-> (root1_valid[i] \/ root2_valid[i]) /\ rays.enabled[i]]
        locations == [i \in Lanes |-> VAdd(rays.origins[i], VScale(rays.directions[i], root[i]))]
        normal == [i \in Lanes |-> VSub(locations[i], sphere.center)]
    IN [called |-> \E i \in Lanes : discriminant_positive[i],
        normal |-> normal, root |-> root, valid |-> valid]

Sphere_hit_packed(sphere, rays, records) ==
    LET args == hit_packed_args(sphere, rays)
    IN IF args.called
       THEN PackedHitRecords_update(records, args.normal, args.root, args.valid,
                                    sphere.material)
       ELSE records

\* Sphere::hit for the ray of lane i: None, or the root of the hit
Sphere_hit(sphere, rays, i) ==
    LET d == discriminant(sphere, rays, i)
        n == root1(sphere, rays, i)
        f == root2(sphere, rays, i)
    IN IF FLt(d, 0) THEN None
       ELSE IF contains(n) THEN Some(n)
       ELSE IF contains(f) THEN Some(f)
       ELSE None

\* ------------------------------------------------------------ SpecSphere
\* The spheres and the rays of the model: the rays run along +x, the centres
\* lie on the x axis, and the radii and the y offsets make every
\* discriminant a square (25 - 16, 25 - 0, 9 - 0) or negative.
Spheres == {[center |-> Vec3(cx, 0), radius |-> r, material |-> 1 + (cx \div 4) + 2 * (r \div 5)] :
               cx \in {0, 4}, r \in {3, 5}}

LaneRays == {[origin |-> Vec3(ox, oy), direction |-> Vec3(1, 0), enabled |-> e] :
                ox \in {0 - 9, 0, 9}, oy \in {0, 4, 6}, e \in BOOLEAN}

InitSphere ==
    /\ pc = "hit_packed"
    /\ \E l \in [Lanes -> LaneRays] :
         h_rays = [origins |-> [i \in Lanes |-> l[i].origin],
                   directions |-> [i \in Lanes |-> l[i].direction],
                   enabled |-> [i \in Lanes |-> l[i].enabled]]
    /\ hit_records = Some(PackedHitRecords_default)
    /\ h_calls = << >>
    /\ h_last = << >>
    /\ rays_in = NoChunks /\ depth_limit = 0 /\ scene = << >>
    /\ TraceIdle /\ V1Idle /\ V2Idle /\ V3Idle /\ OrderIdle /\ RenderIdle /\ TraceRaysIdle

\* `object.hit_packed(&rays, &(0.001..f64::INFINITY), &mut hit_records)` for
\* one more object; h_last keeps the object and what it reported
HitPacked(sphere) ==
    /\ pc = "hit_packed"
    /\ Len(h_calls) < MaxObjects
    /\ hit_records' = Some(Sphere_hit_packed(sphere, h_rays, Unwrap(hit_records)))
    /\ h_calls' = Append(h_calls, sphere)
    /\ h_last' = Some([sphere |-> sphere,
                       valid |-> LET args == hit_packed_args(sphere, h_rays)
                                 IN [i \in Lanes |-> args.called /\ args.valid[i]],
                       root |-> hit_packed_args(sphere, h_rays).root])
    /\ UNCHANGED <<pc, h_rays>>
    /\ UNCHANGED <<rays_in, depth_limit, scene, traceVars, v1Vars, v2Vars, v3Vars, orderVars, renderVars, raysVars>>

NextSphere == \E sphere \in Spheres : HitPacked(sphere)

SpecSphere == InitSphere /\ [][NextSphere]_vars

\* ------------------------------------------------------------ SpecUpdate
\* Any sequence of PackedHitRecords::update calls on a default accumulator.
\* The k-th call has material k; h_calls is the list of the calls made.
\* The t of a lane of a call is one of two distances in the range, so that
\* two calls can be nearer, farther or equal in every lane.
TValues == {1, 2}

InitUpdate ==
    /\ pc = "update"
    /\ h_rays = DefaultRays
    /\ hit_records = Some(PackedHitRecords_default)
    /\ h_calls = << >>
    /\ h_last = << >>
    /\ rays_in = NoChunks /\ depth_limit = 0 /\ scene = << >>
    /\ TraceIdle /\ V1Idle /\ V2Idle /\ V3Idle /\ OrderIdle /\ RenderIdle /\ TraceRaysIdle

Update(t, valid_mask) ==
    /\ pc = "update"
    /\ Len(h_calls) < MaxCalls
    /\ LET material == Len(h_calls) + 1
           normals == [i \in Lanes |-> Vec3(material, t[i])]
       IN /\ hit_records' = Some(PackedHitRecords_update(Unwrap(hit_records), normals, t,
                                                          valid_mask, material))
          /\ h_calls' = Append(h_calls, [t |-> t, valid_mask |-> valid_mask,
                                         normals |-> normals, material |-> material])
    /\ UNCHANGED <<pc, h_rays, h_last>>
    /\ UNCHANGED <<rays_in, depth_limit, scene, traceVars, v1Vars, v2Vars, v3Vars, orderVars, renderVars, raysVars>>

\* `hit_records.at(i)` for every lane i, as the dispatch loop calls it after
\* the last update; h_last keeps what the calls returned
At ==
    /\ pc = "update"
    /\ pc' = "at"
    /\ h_last' = Some([i \in Lanes |-> PackedHitRecords_at(Unwrap(hit_records), i)])
    /\ UNCHANGED <<h_rays, hit_records, h_calls>>
    /\ UNCHANGED <<rays_in, depth_limit, scene, traceVars, v1Vars, v2Vars, v3Vars, orderVars, renderVars, raysVars>>

NextUpdate ==
    \/ \E t \in [Lanes -> TValues] : \E valid_mask \in [Lanes -> BOOLEAN] :
          Update(t, valid_mask)
    \/ At

SpecUpdate == InitUpdate /\ [][NextUpdate]_vars

\* ------------------------------------------------------------ SpecRays
\* Any sequence of update, update_with_enable, enable and disable calls on a
\* PackedRays batch collected from 0..N rays.  h_rays is the batch, h_calls
\* the list of the calls made, h_last the batch as it was constructed.
MaxOps == 2         \* bound: largest number of calls on the batch

RayValues == {RayNew(1, 3), RayNew(2, 4)}

InitRays ==
    /\ pc = "rays"
    /\ \E k \in 0 .. N : h_rays = from_iter([q \in 1 .. k |-> CameraRay(q - 1)])
    /\ h_last = Some(h_rays)
    /\ hit_records = None
    /\ h_calls = << >>
    /\ rays_in = NoChunks /\ depth_limit = 0 /\ scene = << >>
    /\ TraceIdle /\ V1Idle /\ V2Idle /\ V3Idle /\ OrderIdle /\ RenderIdle /\ TraceRaysIdle

RaysCall(call, rays) ==
    /\ pc = "rays"
    /\ Len(h_calls) < MaxOps
    /\ h_rays' = rays
    /\ h_calls' = Append(h_calls, call)
    /\ UNCHANGED <<pc, hit_records, h_last>>
    /\ UNCHANGED <<rays_in, depth_limit, scene, traceVars, v1Vars, v2Vars, v3Vars, orderVars, renderVars, raysVars>>

RaysUpdate(index, value) ==
    RaysCall([op |-> "update", index |-> index, value |-> value, enable |-> TRUE],
             update(h_rays, index, value))

RaysUpdateWithEnable(index, value, en) ==
    RaysCall([op |-> "update_with_enable", index |-> index, value |-> value,
              enable |-> en],
             update_with_enable(h_rays, index, value, en))

RaysEnable(index) ==
    RaysCall([op |-> "enable", index |-> index, value |-> RayNew(0, 0), enable |-> TRUE],
             enable(h_rays, index))

RaysDisable(index) ==
    RaysCall([op |-> "disable", index |-> index, value |-> RayNew(0, 0), enable |-> FALSE],
             disable(h_rays, index))

NextRays ==
    \E index \in Lanes :
        \/ \E value \in RayValues : RaysUpdate(index, value)
        \/ \E value \in RayValues : \E en \in BOOLEAN :
              RaysUpdateWithEnable(index, value, en)
        \/ RaysEnable(index)
        \/ RaysDisable(index)

SpecRays == InitRays /\ [][NextRays]_vars

\* ------------------------------------------------------------ SpecMasked
\* masked_select::<f64, _, n> and Packed::<f64, n>::assign_masked_f64 for the
\* lane counts n of LaneCounts, on a CPU with or without AVX2.  A vector is a
\* function on 0 .. n-1.  h_calls holds the call that was made, h_last what
\* it returned.
LaneCounts == {1, 2, 4, 8}

\* Mask::select(other, base)
select(n, mask, other, base) ==
    [l \in 0 .. (n - 1) |-> IF mask[l] THEN other[l] ELSE base[l]]

\* masked_select for an element of 8 bytes.  The AVX2 branch is taken when
\* the vector has at least 32 bytes; its loop runs 32 / N / size_of::<T>()
\* times and iteration i blends and stores the 4 lanes 4i .. 4i+3 of the
\* result, which starts as MaybeUninit::uninit(): a lane that no iteration
\* stores holds whatever `uninit` holds.
masked_select_f64(n, avx2, base, other, mask, uninit) ==
    IF n * 8 >= 32 /\ avx2
    THEN LET iterations == (32 \div n) \div 8
         IN [l \in 0 .. (n - 1) |->
                IF l \div 4 < iterations
                THEN (IF mask[l] THEN other[l] ELSE base[l])
                ELSE uninit[l]]
    ELSE select(n, mask, other, base)

\* Packed::assign_masked: `for i in 0..N { if mask[i].to_bool() { self[i] = values[i] } }`
Packed_assign_masked(n, self, values, mask) ==
    [l \in 0 .. (n - 1) |-> IF mask[l] THEN values[l] ELSE self[l]]

\* Packed::assign_masked_f64: with AVX2 the loop runs N / 4 times and
\* iteration i mask-stores the lanes 4i .. 4i+3
Packed_assign_masked_f64(n, avx2, self, values, mask) ==
    IF avx2
    THEN [l \in 0 .. (n - 1) |->
            IF l \div 4 < n \div 4 /\ mask[l] THEN values[l] ELSE self[l]]
    ELSE Packed_assign_masked(n, self, values, mask)

\* the vectors of the calls: lane l of the target holds 10 + l, lane l of the
\* new values 20 + l
BaseVector(n) == [l \in 0 .. (n - 1) |-> 10 + l]
OtherVector(n) == [l \in 0 .. (n - 1) |-> 20 + l]

\* what the memory of an uninitialised result can hold
UninitVectors(n, mask) ==
    {[l \in 0 .. (n - 1) |-> 0], BaseVector(n), OtherVector(n),
     select(n, mask, OtherVector(n), BaseVector(n))}

InitMasked ==
    /\ pc = "masked"
    /\ h_rays = DefaultRays
    /\ hit_records = None
    /\ h_calls = << >>
    /\ h_last = None
    /\ rays_in = NoChunks /\ depth_limit = 0 /\ scene = << >>
    /\ TraceIdle /\ V1Idle /\ V2Idle /\ V3Idle /\ OrderIdle /\ RenderIdle /\ TraceRaysIdle

MaskedCall(fn, n, avx2, mask, result) ==
    /\ pc = "masked"
    /\ h_calls = << >>
    /\ h_calls' = <<[fn |-> fn, n |-> n, avx2 |-> avx2, mask |-> mask]>>
    /\ h_last' = Some(result)
    /\ UNCHANGED <<pc, h_rays, hit_records>>
    /\ UNCHANGED <<rays_in, depth_limit, scene, traceVars, v1Vars, v2Vars, v3Vars, orderVars, renderVars, raysVars>>

\* masked_assign(&mut base, other, mask): *base = masked_select(*base, other, mask)
MaskedAssign(n, avx2, mask) ==
    \E uninit \in UninitVectors(n, mask) :
        MaskedCall("masked_assign", n, avx2, mask,
                   masked_select_f64(n, avx2, BaseVector(n), OtherVector(n), mask, uninit))

AssignMaskedF64(n, avx2, mask) ==
    MaskedCall("assign_masked_f64", n, avx2, mask,
               Packed_assign_masked_f64(n, avx2, BaseVector(n), OtherVector(n), mask))

NextMasked ==
    \E n \in LaneCounts : \E avx2 \in BOOLEAN : \E mask \in [0 .. (n - 1) -> BOOLEAN] :
        \/ MaskedAssign(n, avx2, mask)
        \/ AssignMaskedF64(n, avx2, mask)

SpecMasked == InitMasked /\ [][NextMasked]_vars

\* ------------------------------------------------------------ SpecCollect
\* `iter.collect::<PackedRays<N>>()` for an iterator of 0 .. N+1 rays.
\* h_calls holds the rays of the iterator, h_last what from_iter returned.
CollectRays == {RayNew(o, d) : o \in {0, 1}, d \in {1, 2, 3}}

InitCollect ==
    /\ pc = "collect"
    /\ h_rays = DefaultRays
    /\ hit_records = None
    /\ h_calls = << >>
    /\ h_last = None
    /\ rays_in = NoChunks /\ depth_limit = 0 /\ scene = << >>
    /\ TraceIdle /\ V1Idle /\ V2Idle /\ V3Idle /\ OrderIdle /\ RenderIdle /\ TraceRaysIdle

Collect(s) ==
    /\ pc = "collect"
    /\ h_calls = << >>
    /\ h_calls' = <<s>>
    /\ h_last' = Some(from_iter(s))
    /\ UNCHANGED <<pc, h_rays, hit_records>>
    /\ UNCHANGED <<rays_in, depth_limit, scene, traceVars, v1Vars, v2Vars, v3Vars, orderVars, renderVars, raysVars>>

NextCollect == \E k \in 0 .. (N + 1) : \E s \in [1 .. k -> CollectRays] : Collect(s)

SpecCollect == InitCollect /\ [][NextCollect]_vars

\* ------------------------------------------------------------ materials
\* Material::get_hit_result of Lambertian, Metal and Dielectric.  Vectors are
\* the integer vectors Vec3(x, y); the rays, normals and random unit vectors
\* of the model lie on the axes, so that every product and root is exact.
\* The draws of the random number generator are arguments.
FAbs(x) == IF x = NaN THEN NaN ELSE IF x < 0 THEN 0 - x ELSE x
FMin(x, y) == IF x = NaN \/ y = NaN THEN NaN ELSE IF x < y THEN x ELSE y
VNeg(a) == Vec3(FNeg(a.x), FNeg(a.y))

near_zero(a) == a.x = 0 /\ a.y = 0

\* Vec3::reflect: self - 2 * self.dot(normal) * normal
reflect(self, normal) == VSub(self, VScale(normal, FMul(2, dot(self, normal))))

\* Vec3::refract
refract(self, normal, refraction_ratio) ==
    LET cos_theta == FMin(dot(VNeg(self), normal), 1)
        r_out_perpendicular == VScale(VAdd(self, VScale(normal, cos_theta)), refraction_ratio)
        r_out_parallel ==
            VScale(normal, FNeg(FSqrt(FAbs(FSub(1, length_squared(r_out_perpendicular))))))
    IN VAdd(r_out_perpendicular, r_out_parallel)

new_absorbed(attenuation) == [attenuation |-> attenuation, scattered_ray |-> None]
new_scattered(attenuation, scattered_ray) ==
    [attenuation |-> attenuation, scattered_ray |-> Some(scattered_ray)]

\* Lambertian::get_hit_result that absorbs when the scatter direction is near zero
Lambertian_get_hit_result_Absorbs(self, hit_record, random_unit_vector) ==
    LET scatter_direction == VAdd(random_unit_vector, hit_record.normal)
    IN IF near_zero(scatter_direction)
       THEN new_absorbed(self.albedo)
       ELSE new_scattered(self.albedo, RayNew(hit_record.location, scatter_direction))

Lambertian_get_hit_result(self, hit_record, random_unit_vector) ==
    LET sum_direction == VAdd(random_unit_vector, hit_record.normal)
        scatter_direction == IF near_zero(sum_direction) THEN hit_record.normal
                             ELSE sum_direction
    IN new_scattered(self.albedo, RayNew(hit_record.location, scatter_direction))

Metal_get_hit_result(self, ray, hit_record, random_unit_vector) ==
    LET reflected == VAdd(reflect(ray.direction, hit_record.normal),
                          VScale(random_unit_vector, self.fuzzy_factor))
    IN new_scattered(self.albedo, RayNew(hit_record.location, reflected))

\* `reflectance_wins` is the outcome of
\* `Dielectric::reflectance(..) > thread_rng().gen_range(0.0..1.0)`
Dielectric_get_hit_result(self, ray, hit_record, reflectance_wins) ==
    LET refraction_ratio == IF hit_record.front_face THEN 1 \div self.index_of_refraction
                            ELSE self.index_of_refraction
        normal == IF self.hollow THEN VNeg(hit_record.normal) ELSE hit_record.normal
        cos_theta == FMin(dot(VNeg(ray.direction), normal), 1)
        sin_theta == FSqrt(FSub(1, FMul(cos_theta, cos_theta)))
        cannot_refract == FMul(refraction_ratio, sin_theta) > 1
        refracted_direction ==
            IF cannot_refract \/ reflectance_wins
            THEN reflect(ray.direction, normal)
            ELSE refract(ray.direction, normal, refraction_ratio)
    IN new_scattered(White, RayNew(hit_record.location, refracted_direction))

\* dynamic dispatch of Material::get_hit_result
get_hit_result(material, ray, hit_record, random_unit_vector, reflectance_wins) ==
    CASE material.type = "lambertian" ->
            Lambertian_get_hit_result(material, hit_record, random_unit_vector)
      [] material.type = "metal" ->
            Metal_get_hit_result(material, ray, hit_record, random_unit_vector)
      [] material.type = "dielectric" ->
            Dielectric_get_hit_result(material, ray, hit_record, reflectance_wins)

\* ------------------------------------------------------------ SpecMaterial
\* One call of get_hit_result.  h_calls holds the material, the ray and the
\* hit record of the call, h_last the HitResult.
AxisVectors == {Vec3(1, 0), Vec3(0, 1), Vec3(0 - 1, 0), Vec3(0, 0 - 1)}

\* a glass of index 2 is hit from the inside (1 / 2 is not an integer)
Materials ==
    {[type |-> "lambertian", albedo |-> a] : a \in {2, 3}}
      \cup {[type |-> "metal", albedo |-> a, fuzzy_factor |-> f] : a \in {2, 3}, f \in {0, 1}}
      \cup {[type |-> "dielectric", index_of_refraction |-> n, hollow |-> h] :
                n \in {1, 2}, h \in BOOLEAN}

HitRecords(material) ==
    {[location |-> Vec3(5, 5), normal |-> n, front_face |-> f] :
        n \in AxisVectors,
        f \in IF material.type = "dielectric" /\ material.index_of_refraction # 1
              THEN {FALSE} ELSE BOOLEAN}

InitMaterial ==
    /\ pc = "material"
    /\ h_rays = DefaultRays
    /\ hit_records = None
    /\ h_calls = << >>
    /\ h_last = None
    /\ rays_in = NoChunks /\ depth_limit = 0 /\ scene = << >>
    /\ TraceIdle /\ V1Idle /\ V2Idle /\ V3Idle /\ OrderIdle /\ RenderIdle /\ TraceRaysIdle

GetHitResult(material, ray, hit_record) ==
    /\ pc = "material"
    /\ h_calls = << >>
    /\ h_calls' = <<[material |-> material, ray |-> ray, hit_record |-> hit_record]>>
    /\ \E random_unit_vector \in AxisVectors : \E reflectance_wins \in BOOLEAN :
          h_last' = Some(get_hit_result(material, ray, hit_record, random_unit_vector,
                                        reflectance_wins))
    /\ UNCHANGED <<pc, h_rays, hit_records>>
    /\ UNCHANGED <<rays_in, depth_limit, scene, traceVars, v1Vars, v2Vars, v3Vars, orderVars, renderVars, raysVars>>

NextMaterial ==
    \E material \in Materials : \E direction \in AxisVectors :
        \E hit_record \in HitRecords(material) :
            GetHitResult(material, RayNew(Vec3(0, 0), direction), hit_record)

SpecMaterial == InitMaterial /\ [][NextMaterial]_vars

\* ------------------------------------------------------------ the bounce loop, call by call
\* The bounce loops of trace_vectorized, trace_vectorized2 and
\* trace_vectorized3 one call per step.  o_tracer is the tracer under way,
\* o_j the chunk of `for j in 0..last_active_chunk` (0 for trace_vectorized,
\* which holds one batch), o_obj the place in `for object in &self.objects`,
\* hit_records the PackedHitRecords of the chunk and h_calls the calls made so
\* far, in order.
Objects == <<1, 2>>

\* the object of the scene that a ray hits, when it hits one
ObjectOf(ray) == 1 + (ray.direction % Len(Objects))

Event(ev, k, j, o, value) == [ev |-> ev, k |-> k, j |-> j, o |-> o, value |-> value]

\* PackedHitRecords::default() as the tracers see it: no lane holds a hit
NoRecords == [i \in Lanes |-> None]

\* object_hit_packed without the `& rays.enabled()` of the valid mask
object_hit_packed_Unmasked(object, rays, records) ==
    [i \in Lanes |->
        IF /\ SceneHits(at_including_disabled(rays, i))
           /\ ObjectOf(at_including_disabled(rays, i)) = object
        THEN Some(at_including_disabled(rays, i))
        ELSE records[i]]

\* Object::hit_packed: the enabled lanes whose ray hits this object get a
\* record, the other lanes keep what the objects before left
object_hit_packed(object, rays, records) ==
    [i \in Lanes |->
        IF /\ rays.enabled[i]
           /\ SceneHits(at_including_disabled(rays, i))
           /\ ObjectOf(at_including_disabled(rays, i)) = object
        THEN Some(at_including_disabled(rays, i))
        ELSE records[i]]

OHeadPc == <<"v1_loop", "v2_loop", "v3_loop">>

\* the counter of the bounce loop
OBounce == CASE o_tracer = 1 -> v1_k [] o_tracer = 2 -> k2 [] OTHER -> k3

\* the number of chunks that a bounce processes
OActiveChunks ==
    CASE o_tracer = 1 -> 1
      [] o_tracer = 2 -> last_active_chunk2
      [] OTHER -> last_active_chunk3

\* the test at the top of the loop body: TRUE when the loop goes on
OGuard == IF o_tracer = 1 THEN any_enabled(v1_rays) ELSE OActiveChunks # 0

\* the rays, colours and hit_sky flags of the chunk under way
OChunk ==
    CASE o_tracer = 1 -> [rays |-> v1_rays, color |-> v1_color, hit_sky |-> v1_hit_sky]
      [] o_tracer = 2 -> [rays |-> ray_buffers[k2 % 2][o_j], color |-> color2[k2 % 2][o_j],
                          hit_sky |-> hit_sky2[k2 % 2][o_j]]
      [] OTHER -> [rays |-> rays3[o_j], color |-> color3[o_j], hit_sky |-> hit_sky3[o_j]]

\* one call of one tracer on the samples of a pixel; the fate of a path is
\* given by the parity of its sample
InitOrder ==
    /\ o_tracer \in 1 .. 3
    /\ pc = <<"v1_call", "v2_call", "v3_call">>[o_tracer]
    /\ \E ns \in 1 .. MaxSamples :
         \E d \in 0 .. MaxDepth :
           \E even \in Fates({"miss", "absorb"}, d) :
             \E odd \in Fates({"miss", "absorb"}, d) :
               /\ rays_in = [c \in 0 .. (ChunkCount(ns) - 1) |-> ChunkOf(c, ns)]
               /\ depth_limit = d
               /\ scene = [s \in 0 .. (ns - 1) |-> IF s % 2 = 0 THEN even ELSE odd]
    /\ v1_j \in (IF o_tracer = 1 THEN DOMAIN rays_in ELSE {0})
    /\ v1_rays = DefaultRays
    /\ v1_color = broadcast_scaler(Black)
    /\ v1_hit_sky = [i \in Lanes |-> FALSE]
    /\ v1_k = 0
    /\ v1_out = << >>
    /\ packed_color = broadcast_scaler(Black)
    /\ result1 = None
    /\ TraceIdle /\ V2Idle /\ V3Idle /\ HitIdle /\ RenderIdle /\ TraceRaysIdle
    /\ o_j = 0
    /\ o_obj = 0

OAtHead == o_tracer \in 1 .. 3 /\ pc = OHeadPc[o_tracer]

\* OHeadBreak that goes on with the chunk loop
OHeadBreak_Continues ==
    /\ OAtHead
    /\ OBounce < depth_limit
    /\ ~OGuard
    /\ h_calls' = Append(h_calls, Event("guard", OBounce, 0, 0, FALSE))
    /\ o_j' = 0
    /\ pc' = "o_default"
    /\ UNCHANGED <<o_tracer, o_obj, h_rays, hit_records, h_last>>
    /\ UNCHANGED <<rays_in, depth_limit, scene, traceVars, v1Vars, v2Vars, v3Vars, renderVars, raysVars>>

\* top of the loop body: the test finds work, the chunk loop starts
OHeadEnter ==
    /\ OAtHead
    /\ OBounce < depth_limit
    /\ OGuard
    /\ h_calls' = Append(h_calls, Event("guard", OBounce, 0, 0, TRUE))
    /\ o_j' = 0
    /\ pc' = "o_default"
    /\ UNCHANGED <<o_tracer, o_obj, h_rays, hit_records, h_last>>
    /\ UNCHANGED <<rays_in, depth_limit, scene, traceVars, v1Vars, v2Vars, v3Vars, renderVars, raysVars>>

\* top of the loop body: the test finds no work, `break`
OHeadBreak ==
    /\ OAtHead
    /\ OBounce < depth_limit
    /\ ~OGuard
    /\ h_calls' = Append(h_calls, Event("guard", OBounce, 0, 0, FALSE))
    /\ pc' = "o_final"
    /\ UNCHANGED <<o_tracer, o_j, o_obj, h_rays, hit_records, h_last>>
    /\ UNCHANGED <<rays_in, depth_limit, scene, traceVars, v1Vars, v2Vars, v3Vars, renderVars, raysVars>>

\* the range 0..depth_limit is used up: the loop ends without the test
OHeadExit ==
    /\ OAtHead
    /\ OBounce >= depth_limit
    /\ pc' = "o_final"
    /\ UNCHANGED <<o_tracer, o_j, o_obj, hitVars>>
    /\ UNCHANGED <<rays_in, depth_limit, scene, traceVars, v1Vars, v2Vars, v3Vars, renderVars, raysVars>>

\* let mut hit_records = PackedHitRecords::default()
ODefault ==
    /\ pc = "o_default"
    /\ hit_records' = Some(NoRecords)
    /\ h_calls' = Append(h_calls, Event("default", OBounce, o_j, 0, TRUE))
    /\ o_obj' = 1
    /\ pc' = "o_objects"
    /\ UNCHANGED <<o_tracer, o_j, h_rays, h_last>>
    /\ UNCHANGED <<rays_in, depth_limit, scene, traceVars, v1Vars, v2Vars, v3Vars, renderVars, raysVars>>

\* object.hit_packed(&rays, .., &mut hit_records) for the next object
OHitPacked ==
    /\ pc = "o_objects"
    /\ o_obj <= Len(Objects)
    /\ hit_records' = Some(object_hit_packed(Objects[o_obj], OChunk.rays,
                                             Unwrap(hit_records)))
    /\ h_calls' = Append(h_calls, Event("hit_packed", OBounce, o_j, o_obj, TRUE))
    /\ o_obj' = o_obj + 1
    /\ UNCHANGED <<pc, o_tracer, o_j, h_rays, h_last>>
    /\ UNCHANGED <<rays_in, depth_limit, scene, traceVars, v1Vars, v2Vars, v3Vars, renderVars, raysVars>>

\* OFinalize that leaves the call of finalize out
OFinalize_Skipped ==
    /\ pc = "o_objects"
    /\ o_obj > Len(Objects)
    /\ pc' = "o_dispatch"
    /\ UNCHANGED <<o_tracer, o_j, o_obj, hitVars>>
    /\ UNCHANGED <<rays_in, depth_limit, scene, traceVars, v1Vars, v2Vars, v3Vars, renderVars, raysVars>>

\* the object loop is over: hit_records.finalize(&rays)
OFinalize ==
    /\ pc = "o_objects"
    /\ o_obj > Len(Objects)
    /\ h_calls' = Append(h_calls, Event("finalize", OBounce, o_j, 0, TRUE))
    /\ pc' = "o_dispatch"
    /\ UNCHANGED <<o_tracer, o_j, o_obj, h_rays, hit_records, h_last>>
    /\ UNCHANGED <<rays_in, depth_limit, scene, traceVars, v1Vars, v2Vars, v3Vars, renderVars, raysVars>>

\* trace_vectorized: `for i in 0..N` over the lanes of the batch, which ends
\* the iteration of the bounce loop
ODispatch1 ==
    /\ pc = "o_dispatch"
    /\ o_tracer = 1
    /\ LET st == DispatchFrom(OChunk, Unwrap(hit_records), 0)
       IN /\ v1_rays' = st.rays
          /\ v1_color' = st.color
          /\ v1_hit_sky' = st.hit_sky
    /\ v1_k' = v1_k + 1
    /\ h_calls' = Append(h_calls, Event("dispatch", OBounce, o_j, 0, TRUE))
    /\ hit_records' = None
    /\ pc' = "v1_loop"
    /\ UNCHANGED <<v1_j, v1_out, packed_color, result1>>
    /\ UNCHANGED <<o_tracer, o_j, o_obj, h_rays, h_last>>
    /\ UNCHANGED <<rays_in, depth_limit, scene, traceVars, v2Vars, v3Vars, renderVars, raysVars>>

\* trace_vectorized2: `for i in 0..N` over the lanes of chunk j, then the next
\* chunk or the shuffle
ODispatch2 ==
    /\ pc = "o_dispatch"
    /\ o_tracer = 2
    /\ LET st == DispatchFrom(OChunk, Unwrap(hit_records), 0)
           selector == k2 % 2
       IN /\ ray_buffers' = [ray_buffers EXCEPT ![selector][o_j] = st.rays]
          /\ color2' = [color2 EXCEPT ![selector][o_j] = st.color]
          /\ hit_sky2' = [hit_sky2 EXCEPT ![selector][o_j] = st.hit_sky]
    /\ h_calls' = Append(h_calls, Event("dispatch", OBounce, o_j, 0, TRUE))
    /\ hit_records' = None
    /\ IF o_j + 1 < last_active_chunk2
       THEN o_j' = o_j + 1 /\ pc' = "o_default"
       ELSE o_j' = o_j /\ pc' = "o_shuffle"
    /\ UNCHANGED <<last_active_chunk2, k2, result2>>
    /\ UNCHANGED <<o_tracer, o_obj, h_rays, h_last>>
    /\ UNCHANGED <<rays_in, depth_limit, scene, traceVars, v1Vars, v3Vars, renderVars, raysVars>>

\* trace_vectorized3: `for i in 0..N` over the lanes of chunk j, then the next
\* chunk or the partition, whose two cursors are set up
ODispatch3 ==
    /\ pc = "o_dispatch"
    /\ o_tracer = 3
    /\ LET st == DispatchFrom(OChunk, Unwrap(hit_records), 0)
       IN /\ rays3' = [rays3 EXCEPT ![o_j] = st.rays]
          /\ color3' = [color3 EXCEPT ![o_j] = st.color]
          /\ hit_sky3' = [hit_sky3 EXCEPT ![o_j] = st.hit_sky]
    /\ h_calls' = Append(h_calls, Event("dispatch", OBounce, o_j, 0, TRUE))
    /\ hit_records' = None
    /\ IF o_j + 1 < last_active_chunk3
       THEN /\ o_j' = o_j + 1
            /\ pc' = "o_default"
            /\ UNCHANGED <<front_index, back_index, swaps3>>
       ELSE /\ o_j' = o_j
            /\ front_index' = before_first(rays3)
            /\ back_index' = after_last(rays3)
            /\ swaps3' = 0
            /\ pc' = "v3_shuffle"
    /\ UNCHANGED <<last_active_chunk3, k3, result3>>
    /\ UNCHANGED <<o_tracer, o_obj, h_rays, h_last>>
    /\ UNCHANGED <<rays_in, depth_limit, scene, traceVars, v1Vars, v2Vars, renderVars, raysVars>>

\* trace_vectorized2: the shuffle into the other buffer set, which ends the
\* iteration of the bounce loop
OShuffle2 ==
    /\ pc = "o_shuffle"
    /\ LET selector == k2 % 2
           next_selector == 1 - selector
           cur == [rays |-> ray_buffers[selector], color |-> color2[selector],
                   hit_sky |-> hit_sky2[selector]]
           o0 == [rays |-> ray_buffers[next_selector], color |-> color2[next_selector],
                  hit_sky |-> hit_sky2[next_selector], output_chunk |-> 0, output_slot |-> 0]
           o1 == ShufflePass(cur, o0, 0, last_active_chunk2, TRUE)
           o2 == ShufflePass(cur, o1, 0, last_active_chunk2, FALSE)
       IN /\ ray_buffers' = [ray_buffers EXCEPT ![next_selector] = o2.rays]
          /\ color2' = [color2 EXCEPT ![next_selector] = o2.color]
          /\ hit_sky2' = [hit_sky2 EXCEPT ![next_selector] = o2.hit_sky]
          /\ last_active_chunk2' = new_last_active_chunk(o1)
    /\ k2' = k2 + 1
    /\ pc' = "v2_loop"
    /\ UNCHANGED result2
    /\ UNCHANGED <<hitVars, orderVars>>
    /\ UNCHANGED <<rays_in, depth_limit, scene, traceVars, v1Vars, v3Vars, renderVars, raysVars>>

\* after the bounce loop: the sky colour and black are applied and the colour
\* is returned
OReturn ==
    /\ pc = "o_final"
    /\ \/ /\ o_tracer = 1
          /\ v1_color' = V1Final(v1_rays, v1_color, v1_hit_sky)
          /\ v1_out' = Append(v1_out, v1_color')
          /\ packed_color' = PackedAdd(packed_color, v1_color')
          /\ v1_j' = v1_j + 1
          /\ UNCHANGED <<v1_rays, v1_hit_sky, v1_k, result1, v2Vars, v3Vars>>
       \/ /\ o_tracer = 2
          /\ color2' = [color2 EXCEPT ![V2Selector] = V2Final(V2Selector)]
          /\ result2' = Some(sum(SumChunks(color2'[V2Selector], 0)))
          /\ UNCHANGED <<ray_buffers, hit_sky2, last_active_chunk2, k2, v1Vars, v3Vars>>
       \/ /\ o_tracer = 3
          /\ color3' = V3Final
          /\ result3' = Some(sum(SumChunks(color3', 0)))
          /\ UNCHANGED <<rays3, hit_sky3, last_active_chunk3, k3, front_index, back_index,
                         swaps3, v1Vars, v2Vars>>
    /\ pc' = "o_end"
    /\ UNCHANGED <<hitVars, orderVars>>
    /\ UNCHANGED <<rays_in, depth_limit, scene, traceVars, renderVars, raysVars>>

NextOrder ==
    \/ V1Call \/ V2Call \/ V3Call
    \/ OHeadEnter \/ OHeadBreak \/ OHeadExit
    \/ ODefault \/ OHitPacked \/ OFinalize
    \/ ODispatch1 \/ ODispatch2 \/ ODispatch3
    \/ OShuffle2 \/ V3Swap \/ V3Break
    \/ OReturn

SpecOrder == InitOrder /\ [][NextOrder]_vars

\* ------------------------------------------------------------ TileRenderer::render
\* The main thread, num_threads workers, the task channel and the update
\* channel (both unbounded).  r_count counts, for every tile, the workers that
\* received its task, its renders and the End results stored for it.
MaxSide == 3        \* bound: largest image width, image height and block size
MaxTiles == 2       \* bound: largest number of tiles
MaxThreads == 2     \* bound: largest num_threads

\* the colour that the scene gives pixel (col, row); the default Rgb is 0
PixelOf(col, row) == 1 + col + row * r_input.image_width

width_in_blocks == (r_input.image_width + r_input.block_size - 1) \div r_input.block_size
height_in_blocks == (r_input.image_height + r_input.block_size - 1) \div r_input.block_size

Threads == 0 .. (r_input.num_threads - 1)
Tiles == 0 .. (width_in_blocks * height_in_blocks - 1)

\* the task of block (block_index_x, block_index_y), clipped to the image
TileRenderTask(block_index_x, block_index_y) ==
    [block_index_x |-> block_index_x,
     block_index_y |-> block_index_y,
     size_x |-> Min(r_input.block_size,
                    r_input.image_width - block_index_x * r_input.block_size),
     size_y |-> Min(r_input.block_size,
                    r_input.image_height - block_index_y * r_input.block_size),
     block_size |-> r_input.block_size]

\* the tasks in the order of `for block_index_y { for block_index_x {..} }`
TaskList ==
    [q \in 1 .. (width_in_blocks * height_in_blocks) |->
        TileRenderTask((q - 1) % width_in_blocks, (q - 1) \div width_in_blocks)]

\* TileRenderResult::default()
DefaultResult == [block_index_x |-> 0, block_index_y |-> 0, thread_id |-> 0, output |-> << >>]

\* render_vectorized that writes the rows of the tile size_x apart
render_vectorized_SizeStride(self, thread_id) ==
    [block_index_x |-> self.block_index_x,
     block_index_y |-> self.block_index_y,
     thread_id |-> thread_id,
     output |-> [q \in 0 .. (self.block_size * self.block_size - 1) |->
                   IF q < self.size_x * self.size_y
                   THEN PixelOf((q % self.size_x) + self.block_index_x * self.block_size,
                                (q \div self.size_x) + self.block_index_y * self.block_size)
                   ELSE 0]]

\* TileRenderTask::render_vectorized: the pixels of the tile are written at
\* j * block_size + i, the rest of the block stays the default Rgb
render_vectorized(self, thread_id) ==
    [block_index_x |-> self.block_index_x,
     block_index_y |-> self.block_index_y,
     thread_id |-> thread_id,
     output |-> [q \in 0 .. (self.block_size * self.block_size - 1) |->
                   LET i == q % self.block_size
                       j == q \div self.block_size
                   IN IF i < self.size_x /\ j < self.size_y
                      THEN PixelOf(i + self.block_index_x * self.block_size,
                                   j + self.block_index_y * self.block_size)
                      ELSE 0]]

result_index(r) == r.block_index_x + r.block_index_y * width_in_blocks

InitRender ==
    /\ pc = "render"
    /\ r_pc = "enqueue"
    /\ r_input \in [image_width : 0 .. MaxSide, image_height : 0 .. MaxSide,
                    block_size : 1 .. MaxSide, num_threads : 1 .. MaxThreads]
    /\ width_in_blocks * height_in_blocks <= MaxTiles
    /\ task_queue = << >>
    /\ update_queue = << >>
    /\ w_pc = [t \in Threads |-> "unspawned"]
    /\ w_task = [t \in Threads |-> TileRenderTask(0, 0)]
    /\ results = << >>
    /\ r_joined = 0
    /\ image = << >>
    /\ r_count = [q \in Tiles |-> [received |-> 0, rendered |-> 0, stored |-> 0]]
    /\ rays_in = NoChunks
    /\ depth_limit = 0
    /\ scene = << >>
    /\ TraceIdle /\ V1Idle /\ V2Idle /\ V3Idle /\ HitIdle /\ OrderIdle /\ TraceRaysIdle

\* the two `for` loops that send every task, and drop(task_tx)
Enqueue ==
    /\ r_pc = "enqueue"
    /\ task_queue' = TaskList
    /\ r_pc' = "spawn"
    /\ UNCHANGED <<r_input, update_queue, w_pc, w_task, results, r_joined, image, r_count>>
    /\ UNCHANGED <<tracerVars, traceVars, v1Vars, v2Vars, v3Vars, hitVars, orderVars, raysVars>>

\* std::thread::spawn of the next worker
Spawn ==
    /\ r_pc = "spawn"
    /\ \E t \in Threads :
         /\ w_pc[t] = "unspawned"
         /\ \A u \in Threads : u < t => w_pc[u] # "unspawned"
         /\ w_pc' = [w_pc EXCEPT ![t] = "recv"]
    /\ UNCHANGED <<r_pc, r_input, task_queue, update_queue, w_task, results, r_joined,
                   image, r_count>>
    /\ UNCHANGED <<tracerVars, traceVars, v1Vars, v2Vars, v3Vars, hitVars, orderVars, raysVars>>

\* all workers are spawned: drop(update_tx), and the results are allocated
DropUpdateTx ==
    /\ r_pc = "spawn"
    /\ \A t \in Threads : w_pc[t] # "unspawned"
    /\ results' = [q \in Tiles |-> DefaultResult]
    /\ r_pc' = "update"
    /\ UNCHANGED <<r_input, task_queue, update_queue, w_pc, w_task, r_joined, image, r_count>>
    /\ UNCHANGED <<tracerVars, traceVars, v1Vars, v2Vars, v3Vars, hitVars, orderVars, raysVars>>

\* worker t: thread_task_rx.recv() returns a task
WorkerRecv(t) ==
    /\ w_pc[t] = "recv"
    /\ task_queue # << >>
    /\ w_task' = [w_task EXCEPT ![t] = Head(task_queue)]
    /\ task_queue' = Tail(task_queue)
    /\ r_count' = [r_count EXCEPT ![result_index(Head(task_queue))].received = @ + 1]
    /\ w_pc' = [w_pc EXCEPT ![t] = "start"]
    /\ UNCHANGED <<r_pc, r_input, update_queue, results, r_joined, image>>
    /\ UNCHANGED <<tracerVars, traceVars, v1Vars, v2Vars, v3Vars, hitVars, orderVars, raysVars>>

\* WorkerExit of a worker whose recv() never fails: task_tx is kept
WorkerExit_Blocked(t) ==
    /\ w_pc[t] = "recv"
    /\ task_queue = << >>
    /\ r_pc = "enqueue"
    /\ w_pc' = [w_pc EXCEPT ![t] = "exit"]
    /\ UNCHANGED <<r_pc, r_input, task_queue, update_queue, w_task, results, r_joined,
                   image, r_count>>
    /\ UNCHANGED <<tracerVars, traceVars, v1Vars, v2Vars, v3Vars, hitVars, orderVars, raysVars>>

\* worker t: recv() fails, the queue is empty and task_tx is dropped; the
\* thread ends and drops its update sender
WorkerExit(t) ==
    /\ w_pc[t] = "recv"
    /\ task_queue = << >>
    /\ r_pc # "enqueue"
    /\ w_pc' = [w_pc EXCEPT ![t] = "exit"]
    /\ UNCHANGED <<r_pc, r_input, task_queue, update_queue, w_task, results, r_joined,
                   image, r_count>>
    /\ UNCHANGED <<tracerVars, traceVars, v1Vars, v2Vars, v3Vars, hitVars, orderVars, raysVars>>

\* worker t sends Start
WorkerStart(t) ==
    /\ w_pc[t] = "start"
    /\ update_queue' = Append(update_queue,
                              [type |-> "Start",
                               block_index_x |-> w_task[t].block_index_x,
                               block_index_y |-> w_task[t].block_index_y,
                               thread_id |-> t, output |-> << >>])
    /\ w_pc' = [w_pc EXCEPT ![t] = "render"]
    /\ UNCHANGED <<r_pc, r_input, task_queue, w_task, results, r_joined, image, r_count>>
    /\ UNCHANGED <<tracerVars, traceVars, v1Vars, v2Vars, v3Vars, hitVars, orderVars, raysVars>>

\* worker t renders its tile and sends End
WorkerEnd(t) ==
    /\ w_pc[t] = "render"
    /\ LET result == render_vectorized(w_task[t], t)
       IN update_queue' = Append(update_queue,
                                 [type |-> "End",
                                  block_index_x |-> result.block_index_x,
                                  block_index_y |-> result.block_index_y,
                                  thread_id |-> result.thread_id,
                                  output |-> result.output])
    /\ r_count' = [r_count EXCEPT ![result_index(w_task[t])].rendered = @ + 1]
    /\ w_pc' = [w_pc EXCEPT ![t] = "recv"]
    /\ UNCHANGED <<r_pc, r_input, task_queue, w_task, results, r_joined, image>>
    /\ UNCHANGED <<tracerVars, traceVars, v1Vars, v2Vars, v3Vars, hitVars, orderVars, raysVars>>

\* UpdateRecv that does not store the End results
UpdateRecv_NoStore ==
    /\ r_pc = "update"
    /\ update_queue # << >>
    /\ update_queue' = Tail(update_queue)
    /\ UNCHANGED <<r_pc, r_input, task_queue, w_pc, w_task, results, r_joined, image, r_count>>
    /\ UNCHANGED <<tracerVars, traceVars, v1Vars, v2Vars, v3Vars, hitVars, orderVars, raysVars>>

\* main thread: update_rx.recv() returns an update; an End is stored
UpdateRecv ==
    /\ r_pc = "update"
    /\ update_queue # << >>
    /\ LET msg == Head(update_queue)
       IN IF msg.type = "End"
          THEN /\ results' = [results EXCEPT ![result_index(msg)] =
                                [block_index_x |-> msg.block_index_x,
                                 block_index_y |-> msg.block_index_y,
                                 thread_id |-> msg.thread_id,
                                 output |-> msg.output]]
               /\ r_count' = [r_count EXCEPT ![result_index(msg)].stored = @ + 1]
          ELSE UNCHANGED <<results, r_count>>
    /\ update_queue' = Tail(update_queue)
    /\ UNCHANGED <<r_pc, r_input, task_queue, w_pc, w_task, r_joined, image>>
    /\ UNCHANGED <<tracerVars, traceVars, v1Vars, v2Vars, v3Vars, hitVars, orderVars, raysVars>>

\* main thread: recv() fails, the update queue is empty and every sender is
\* dropped
UpdateClosed ==
    /\ r_pc = "update"
    /\ update_queue = << >>
    /\ \A t \in Threads : w_pc[t] = "exit"
    /\ r_pc' = "join"
    /\ UNCHANGED <<r_input, task_queue, update_queue, w_pc, w_task, results, r_joined,
                   image, r_count>>
    /\ UNCHANGED <<tracerVars, traceVars, v1Vars, v2Vars, v3Vars, hitVars, orderVars, raysVars>>

\* handle.join() of the next worker
Join ==
    /\ r_pc = "join"
    /\ r_joined < r_input.num_threads
    /\ w_pc[r_joined] = "exit"
    /\ r_joined' = r_joined + 1
    /\ UNCHANGED <<r_pc, r_input, task_queue, update_queue, w_pc, w_task, results,
                   image, r_count>>
    /\ UNCHANGED <<tracerVars, traceVars, v1Vars, v2Vars, v3Vars, hitVars, orderVars, raysVars>>

\* the pixel that RgbImage::from_fn reads for (col, row); an index outside the
\* output of the tile panics
image_pixel(col, row) ==
    LET block_index_x == col \div r_input.block_size
        block_index_y == row \div r_input.block_size
        intra_block_x == col % r_input.block_size
        intra_block_y == row % r_input.block_size
        output == results[block_index_x + block_index_y * width_in_blocks].output
        index == intra_block_x + intra_block_y * r_input.block_size
    IN IF index \in DOMAIN output THEN output[index] ELSE Panic

\* all workers are joined: the image is read from the results
Finish ==
    /\ r_pc = "join"
    /\ r_joined = r_input.num_threads
    /\ image' = [p \in (0 .. (r_input.image_width - 1)) \X (0 .. (r_input.image_height - 1)) |->
                   image_pixel(p[1], p[2])]
    /\ r_pc' = "done"
    /\ UNCHANGED <<r_input, task_queue, update_queue, w_pc, w_task, results, r_joined,
                   r_count>>
    /\ UNCHANGED <<tracerVars, traceVars, v1Vars, v2Vars, v3Vars, hitVars, orderVars, raysVars>>

NextRender ==
    \/ Enqueue \/ Spawn \/ DropUpdateTx
    \/ \E t \in Threads : WorkerRecv(t)
    \/ \E t \in Threads : WorkerExit(t)
    \/ \E t \in Threads : WorkerStart(t)
    \/ \E t \in Threads : WorkerEnd(t)
    \/ UpdateRecv \/ UpdateClosed \/ Join \/ Finish

SpecRender == InitRender /\ [][NextRender]_vars

\* every thread that can take a step takes one in the end: the operating
\* system schedules every runnable thread
SpecRenderLive ==
    /\ InitRender
    /\ [][NextRender]_vars
    /\ WF_vars(Enqueue \/ Spawn \/ DropUpdateTx \/ UpdateRecv \/ UpdateClosed \/ Join \/ Finish)
    /\ \A t \in 0 .. (MaxThreads - 1) :
         WF_vars(t \in Threads /\ (WorkerRecv(t) \/ WorkerExit(t)
                                     \/ WorkerStart(t) \/ WorkerEnd(t)))

\* ------------------------------------------------------------ Scene::trace_rays
\* Scene::trace_rays on the camera rays of the samples, one ray state of one
\* bounce per step, and then Scene::trace for every ray of the list in turn;
\* tr_out is the list that trace_rays returns, tr_ref the colours that trace
\* returns.
RayList == [q \in 1 .. Cardinality(DOMAIN scene) |-> CameraRay(q - 1)]

InitTraceRays ==
    /\ pc = "tr_loop"
    /\ \E ns \in 0 .. MaxSamples :
         \E d \in 0 .. MaxDepth :
           \E even \in Fates({"miss", "absorb"}, d) :
             \E odd \in Fates({"miss", "absorb"}, d) :
               /\ depth_limit = d
               /\ scene = [s \in 0 .. (ns - 1) |-> IF s % 2 = 0 THEN even ELSE odd]
    /\ ray_stats = [q \in DOMAIN RayList |-> [color |-> White, ray |-> Some(RayList[q])]]
    /\ tr_k = 0
    /\ tr_i = 0
    /\ tr_out = None
    /\ tr_ref = << >>
    /\ rays_in = NoChunks
    /\ TraceIdle /\ V1Idle /\ V2Idle /\ V3Idle /\ HitIdle /\ OrderIdle /\ RenderIdle

\* the body of `for ray_state in &mut ray_stats` for one ray state
ray_state_step(ray_state) ==
    IF IsSome(ray_state.ray)
    THEN LET ray == Unwrap(ray_state.ray)
         IN IF SceneHits(ray)
            THEN [color |-> ray_state.color * hit_result(ray).attenuation,
                  ray |-> hit_result(ray).scattered_ray]
            ELSE [color |-> ray_state.color * sky_color(ray.direction), ray |-> None]
    ELSE ray_state

\* one ray state of one iteration of `for _ in 0..depth_limit`
TraceRaysStep ==
    /\ pc = "tr_loop"
    /\ tr_k < depth_limit
    /\ tr_i < Len(ray_stats)
    /\ ray_stats' = [ray_stats EXCEPT ![tr_i + 1] = ray_state_step(@)]
    /\ IF tr_i + 1 < Len(ray_stats)
       THEN tr_i' = tr_i + 1 /\ tr_k' = tr_k
       ELSE tr_i' = 0 /\ tr_k' = tr_k + 1
    /\ UNCHANGED <<pc, tr_out, tr_ref>>
    /\ UNCHANGED <<rays_in, depth_limit, scene, traceVars, v1Vars, v2Vars, v3Vars, hitVars>>
    /\ UNCHANGED <<orderVars, renderVars>>

\* ray_stats_colors that returns the colour of every ray state
ray_stats_colors_NoBlack(stats) == [q \in DOMAIN stats |-> stats[q].color]

\* the colours of the ray states after the loop, black included
ray_stats_colors(stats) ==
    [q \in DOMAIN stats |-> IF IsSome(stats[q].ray) THEN Black ELSE stats[q].color]

\* the loop is over: the colours are collected and returned, and the first
\* call of trace is made
TraceRaysCollect ==
    /\ pc = "tr_loop"
    /\ (tr_k >= depth_limit \/ Len(ray_stats) = 0)
    /\ tr_out' = Some(ray_stats_colors(ray_stats))
    /\ IF Len(RayList) > 0
       THEN /\ t_ray' = RayList[1]
            /\ t_depth' = depth_limit
            /\ pc' = "trace_call"
       ELSE /\ pc' = "tr_done"
            /\ UNCHANGED <<t_ray, t_depth>>
    /\ UNCHANGED <<t_stack, t_hit_calls, t_result, ray_stats, tr_k, tr_i, tr_ref>>
    /\ UNCHANGED <<rays_in, depth_limit, scene, v1Vars, v2Vars, v3Vars, hitVars>>
    /\ UNCHANGED <<orderVars, renderVars>>

\* the outermost call of trace has returned: its colour is kept and trace is
\* called for the next ray
TraceNext ==
    /\ pc = "trace_ret"
    /\ t_stack = << >>
    /\ Len(tr_ref) < Len(RayList)
    /\ tr_ref' = Append(tr_ref, Unwrap(t_result))
    /\ IF Len(tr_ref) + 1 < Len(RayList)
       THEN /\ t_ray' = RayList[Len(tr_ref) + 2]
            /\ t_depth' = depth_limit
            /\ pc' = "trace_call"
       ELSE /\ pc' = "tr_done"
            /\ UNCHANGED <<t_ray, t_depth>>
    /\ UNCHANGED <<t_stack, t_hit_calls, t_result, ray_stats, tr_k, tr_i, tr_out>>
    /\ UNCHANGED <<rays_in, depth_limit, scene, v1Vars, v2Vars, v3Vars, hitVars>>
    /\ UNCHANGED <<orderVars, renderVars>>

NextTraceRays ==
    \/ TraceRaysStep \/ TraceRaysCollect
    \/ TraceBlack \/ TraceHit \/ TraceReturn \/ TraceNext

SpecTraceRays == InitTraceRays /\ [][NextTraceRays]_vars

\* ------------------------------------------------------------ reference values
\* the ray of the path of sample s after j scatterings
PathRay(s, j) == RayNew(IF j = 0 THEN 0 ELSE Dir(s, j - 1), Dir(s, j))

\* product of the attenuations of the first n hits of the path of sample s
RECURSIVE AttProd(_, _)
AttProd(s, n) == IF n <= 0 THEN White ELSE AttProd(s, n - 1) * Attenuation(PathRay(s, n - 1))

\* flattened lane positions of a list of chunks
Positions(chunks) == {p \in 0 .. (Cardinality(DOMAIN chunks) * N - 1) : TRUE}

\* the (origin, direction, enabled, colour, hit_sky) tuple of the lane at position p
LaneTuple(rays, color, hit_sky, p) ==
    <<rays[p \div N].origins[p % N], rays[p \div N].directions[p % N],
      rays[p \div N].enabled[p % N], color[p \div N][p % N], hit_sky[p \div N][p % N]>>

\* the multiset of the lane tuples of a list of chunks
LaneBag(rays, color, hit_sky) ==
    LET T == {LaneTuple(rays, color, hit_sky, p) : p \in Positions(rays)}
    IN [t \in T |-> Cardinality({p \in Positions(rays) :
                                    LaneTuple(rays, color, hit_sky, p) = t})]

\* positions of a list of chunks that hold a ray of the path of sample s
PositionsOf(rays, s) ==
    {p \in Positions(rays) :
        /\ rays[p \div N].directions[p % N] # 0
        /\ SampleOf(at_including_disabled(rays[p \div N], p % N)) = s}

Samples == DOMAIN scene

\* ------------------------------------------------------------ claims
\* C1: the three vectorized strategies, run on the same chunks, depth_limit
\* and scene, return the same summed colour (stated for inputs made of full
\* chunks).
C1_StrategiesAgree ==
    (pc = "done" /\ NumChunks > 0 /\ Cardinality(Samples) = NumChunks * N)
        => (result1 = result2 /\ result2 = result3)

\* C2: in trace_vectorized a lane that was absorbed at bounce k is returned
\* with the product of the attenuations of its hits 0..k, never multiplied by
\* the sky colour.
C2_AbsorbedKeepsColour ==
    \A c \in 1 .. Len(v1_out) : \A i \in Lanes :
        LET s == (c - 1) * N + i
        IN (s \in Samples /\ scene[s].kind = "absorb")
              => v1_out[c][i] = AttProd(s, scene[s].at + 1)

\* number of bounces whose dispatch has been done by trace_vectorized3
Dispatched3 == IF pc = "v3_shuffle" THEN k3 + 1 ELSE k3

\* the lane at position p is the escaped lane of sample s in its terminal state
EscapedLane(rays, color, hit_sky, p, s) ==
    /\ ~rays[p \div N].enabled[p % N]
    /\ hit_sky[p \div N][p % N]
    /\ at_including_disabled(rays[p \div N], p % N) = PathRay(s, scene[s].at)

\* C3: in trace_vectorized and trace_vectorized3 a lane that records no hit
\* while enabled is disabled and marked hit_sky in that bounce and stays so
\* with an unchanged colour in every later bounce, and after the loop its
\* colour is the accumulated colour times the sky colour of the direction of
\* the ray that escaped, once.
C3_EscapedIsTerminal ==
    \A s \in Samples :
        scene[s].kind = "miss" =>
            LET a == scene[s].at
                acc == AttProd(s, a)
                final == acc * sky_color(Dir(s, a))
            IN /\ (pc = "v1_loop" /\ s \div N = v1_j) =>
                     IF v1_k > a
                     THEN /\ EscapedLane(<<v1_rays>>, <<v1_color>>, <<v1_hit_sky>>, N + (s % N), s)
                          /\ v1_color[s % N] = acc
                     ELSE v1_rays.enabled[s % N] /\ ~v1_hit_sky[s % N]
               /\ (s \div N < Len(v1_out)) => v1_out[(s \div N) + 1][s % N] = final
               /\ (pc \in {"v3_loop", "v3_shuffle", "done"}) =>
                     /\ Cardinality(PositionsOf(rays3, s)) = 1
                     /\ \A p \in PositionsOf(rays3, s) :
                          IF Dispatched3 > a
                          THEN /\ EscapedLane(rays3, color3, hit_sky3, p, s)
                               /\ color3[p \div N][p % N] = IF pc = "done" THEN final ELSE acc
                          ELSE rays3[p \div N].enabled[p % N] /\ ~hit_sky3[p \div N][p % N]

\* a lane escaped in the first bounce, another lane of its chunk went on, the
\* compaction of trace_vectorized3 moved the escaped lane to another position,
\* a later bounce was run, and both tracers returned
C3_Witness ==
    /\ pc = "done"
    /\ \E s \in Samples :
         /\ scene[s].kind = "miss" /\ scene[s].at = 0
         /\ \E s2 \in Samples :
              s2 # s /\ s2 \div N = s \div N /\ scene[s2].kind = "forever"
         /\ k3 >= 2
         /\ PositionsOf(rays3, s) # {s}

\* C4: in trace_vectorized and trace_vectorized3 every lane still enabled
\* when the bounce loop ends is black in the returned colours, so the result
\* is the sum of the colours of the other lanes.
C4_ExhaustedIsBlack ==
    /\ (pc = "v1_call" /\ v1_j > 0) =>
          \A i \in Lanes : v1_rays.enabled[i] =>
              (v1_color[i] = Black /\ v1_out[v1_j][i] = Black)
    /\ pc = "done" =>
          /\ \A j \in Chunks : \A i \in Lanes : rays3[j].enabled[i] => color3[j][i] = Black
          /\ \A s \in Samples : scene[s].kind = "forever" =>
                \E p \in PositionsOf(rays3, s) :
                    rays3[p \div N].enabled[p % N] /\ color3[p \div N][p % N] = Black

\* both tracers ended with a lane that scattered in every one of >= 2 bounces
C4_Witness ==
    /\ pc = "done"
    /\ depth_limit >= 2
    /\ \E i \in Lanes : v1_rays.enabled[i] /\ v1_k = depth_limit
    /\ \E j \in Chunks : \E i \in Lanes : rays3[j].enabled[i]

\* C6: an iteration of the partition loop of trace_vectorized3 only permutes
\* lanes: the multiset of (origin, direction, enabled, colour, hit_sky) over
\* all chunks is the same before and after it.
C6_CompactionPermutes ==
    [][pc = "v3_shuffle" =>
          LaneBag(rays3', color3', hit_sky3') = LaneBag(rays3, color3, hit_sky3)]_vars

\* a swap has exchanged two lanes that differ in colour and hit_sky
C6_Witness ==
    /\ pc = "v3_shuffle"
    /\ swaps3 > 0
    /\ LET f == front_index
           b == back_index
       IN /\ color3[f.chuck_index][f.slot_index] # color3[b.chuck_index][b.slot_index]
          /\ hit_sky3[f.chuck_index][f.slot_index] # hit_sky3[b.chuck_index][b.slot_index]

\* the state in which a lane of sample s is after e bounces of its tracer
ExpectedEnabled(s, e) == scene[s].kind = "forever" \/ scene[s].at >= e
ExpectedScatters(s, e) == IF scene[s].kind = "forever" THEN e ELSE Min(e, scene[s].at)
ExpectedColor(s, e) ==
    AttProd(s, IF scene[s].kind = "forever" THEN e
               ELSE IF scene[s].kind = "absorb" THEN Min(e, scene[s].at + 1)
               ELSE Min(e, scene[s].at))

\* C7: when the bounce loop of trace_vectorized2 is over (after at least one
\* bounce), the buffer set that is read holds every input lane exactly once,
\* in its final state.
C7_ReadBufferHoldsEveryLaneOnce ==
    (pc = "v2_loop" /\ (k2 >= depth_limit \/ last_active_chunk2 = 0) /\ NumChunks > 0
        /\ k2 >= 1) =>
        \A s \in Samples :
            /\ Cardinality(PositionsOf(ray_buffers[V2Selector], s)) = 1
            /\ \A p \in PositionsOf(ray_buffers[V2Selector], s) :
                 /\ ray_buffers[V2Selector][p \div N].enabled[p % N] = ExpectedEnabled(s, k2)
                 /\ at_including_disabled(ray_buffers[V2Selector][p \div N], p % N)
                       = PathRay(s, ExpectedScatters(s, k2))
                 /\ color2[V2Selector][p \div N][p % N] = ExpectedColor(s, k2)

\* C5: Scene::trace called with depth_limit 0 returns exactly black and
\* makes no call of Scene::hit.
C5_TraceDepthZero ==
    (pc = "trace_ret" /\ depth_limit = 0) => (t_result = Some(Black) /\ t_hit_calls = 0)

\* trace returned for depth_limit 0 and a ray that would have received the
\* sky colour with a larger budget
C5_Witness ==
    /\ pc = "trace_ret"
    /\ depth_limit = 0
    /\ \E s \in Samples : scene[s] = [kind |-> "miss", at |-> 0]

\* C8: hit_packed reports a valid intersection for lane i iff the
\* discriminant is >= 0, one of the two roots is in the t-range and the lane
\* is enabled; the t it reports is the near root if that is in range,
\* otherwise the far root.
C8_SphereHitPacked ==
    IsSome(h_last) =>
        LET sphere == Unwrap(h_last).sphere
        IN \A i \in Lanes :
            LET d == discriminant(sphere, h_rays, i)
                near == root1(sphere, h_rays, i)
                far == root2(sphere, h_rays, i)
            IN /\ Unwrap(h_last).valid[i] <=>
                     (FGe(d, 0) /\ (contains(near) \/ contains(far)) /\ h_rays.enabled[i])
               /\ Unwrap(h_last).valid[i] =>
                     Unwrap(h_last).root[i] = IF contains(near) THEN near ELSE far

\* the calls of update that had lane i valid
ValidCalls(i) == {k \in 1 .. Len(h_calls) : h_calls[k].valid_mask[i]}

\* C9: after any sequence of update calls on a default accumulator, hits[i]
\* is true iff some call had valid_mask[i], and then t[i] is the least t[i] of
\* the calls that had valid_mask[i].
C9_HitsAndMinimumT ==
    pc = "update" =>
        \A i \in Lanes :
            /\ Unwrap(hit_records).hits[i] <=> ValidCalls(i) # {}
            /\ ValidCalls(i) # {} =>
                 /\ \E k \in ValidCalls(i) : Unwrap(hit_records).t[i] = h_calls[k].t[i]
                 /\ \A k \in ValidCalls(i) : Unwrap(hit_records).t[i] <= h_calls[k].t[i]

\* a lane was valid in two calls with the nearer t in the later one, and
\* another lane was valid in no call
C9_Witness ==
    /\ pc = "update"
    /\ \E i \in Lanes : \E k, m \in ValidCalls(i) :
         k < m /\ h_calls[k].t[i] > h_calls[m].t[i]
    /\ \E i \in Lanes : ValidCalls(i) = {} /\ Len(h_calls) >= 2

\* the call whose normal and material the accumulator must hold for lane i:
\* the last one among the valid calls of least t
Winner(i) ==
    CHOOSE k \in ValidCalls(i) :
        \A m \in ValidCalls(i) :
            \/ h_calls[k].t[i] < h_calls[m].t[i]
            \/ (h_calls[k].t[i] = h_calls[m].t[i] /\ k >= m)

\* C10: when several objects report a valid hit for a lane, the accumulator
\* holds the normal, t and material of the one of smaller t, and of the
\* later-tested one when the t are equal.
C10_NearestWinsLaterOnTie ==
    pc = "update" =>
        \A i \in Lanes :
            ValidCalls(i) # {} =>
                /\ Unwrap(hit_records).materials[i] = h_calls[Winner(i)].material
                /\ Unwrap(hit_records).normals[i] = h_calls[Winner(i)].normals[i]
                /\ Unwrap(hit_records).t[i] = h_calls[Winner(i)].t[i]

\* two calls were valid for a lane with equal t, and a call of smaller t
\* came before a call of larger t
C10_Witness ==
    /\ pc = "update"
    /\ \E i \in Lanes : \E k, m \in ValidCalls(i) :
         k < m /\ h_calls[k].t[i] = h_calls[m].t[i] /\ Winner(i) = m
    /\ \E i \in Lanes : \E k, m \in ValidCalls(i) :
         k < m /\ h_calls[k].t[i] < h_calls[m].t[i] /\ Winner(i) = k

\* C11: PackedHitRecords::at(i) returns None iff no update call had lane i
\* valid; otherwise it returns a record with the t and the material of the
\* winning call, and the unwrap of the stored material reference never
\* panics.
C11_AtReturnsWinner ==
    pc = "at" =>
        \A i \in Lanes :
            LET r == Unwrap(h_last)[i]
            IN /\ ~r.panicked
               /\ (r.value = None) <=> (ValidCalls(i) = {})
               /\ ValidCalls(i) # {} =>
                    /\ Unwrap(r.value).t = h_calls[Winner(i)].t[i]
                    /\ Unwrap(r.value).material = h_calls[Winner(i)].material
               /\ Unwrap(hit_records).hits[i] =>
                    Unwrap(hit_records).materials[i] # NoMaterial

\* at was called after two updates: one lane had a hit in both, with the
\* first one winning, and one lane had no hit
C11_Witness ==
    /\ pc = "at"
    /\ \E i \in Lanes :
         /\ Cardinality(ValidCalls(i)) = 2
         /\ Winner(i) = 1
         /\ IsSome(Unwrap(h_last)[i].value)
    /\ \E i \in Lanes : ValidCalls(i) = {} /\ Unwrap(h_last)[i].value = None

\* the calls that wrote a ray to lane i, and the calls that set the flag of lane i
WritesTo(i) ==
    {k \in 1 .. Len(h_calls) :
        h_calls[k].index = i /\ h_calls[k].op \in {"update", "update_with_enable"}}
FlagsOf(i) == {k \in 1 .. Len(h_calls) : h_calls[k].index = i}
LastOf(S) == CHOOSE k \in S : \A m \in S : m <= k

\* the ray most recently written to lane i and the flag most recently given to it
WrittenRay(i) ==
    IF WritesTo(i) = {} THEN at_including_disabled(Unwrap(h_last), i)
    ELSE h_calls[LastOf(WritesTo(i))].value
WrittenFlag(i) ==
    IF FlagsOf(i) = {} THEN Unwrap(h_last).enabled[i]
    ELSE h_calls[LastOf(FlagsOf(i))].enable

\* C12: after any sequence of update, update_with_enable, enable and disable
\* calls, at(i) is None iff the flag of lane i is false, and Some of the ray
\* most recently written to lane i otherwise; update(i, ray) leaves lane i
\* enabled and no call changes the ray or the flag of another lane.
C12_AtAfterCalls ==
    pc = "rays" =>
        \A i \in Lanes :
            /\ is_enabled(h_rays, i) = WrittenFlag(i)
            /\ (at(h_rays, i) = None) <=> ~WrittenFlag(i)
            /\ IsSome(at(h_rays, i)) => Unwrap(at(h_rays, i)) = WrittenRay(i)
            /\ (Len(h_calls) > 0 /\ h_calls[Len(h_calls)].op = "update"
                    /\ h_calls[Len(h_calls)].index = i) => IsSome(at(h_rays, i))

\* a disabled lane was written by update and reads back the new ray, while
\* another lane that was disabled by a call reads None
C12_Witness ==
    /\ pc = "rays"
    /\ Len(h_calls) = 2
    /\ h_calls[1].op = "disable"
    /\ h_calls[2].op = "update"
    /\ h_calls[1].index # h_calls[2].index
    /\ ~Unwrap(h_last).enabled[h_calls[2].index]
    /\ at(h_rays, h_calls[2].index) = Some(h_calls[2].value)
    /\ at(h_rays, h_calls[1].index) = None

\* C13: a disable(i) or enable(i) call changes only the enabled flag of lane
\* i: the origins and directions of every lane, lane i included, and the
\* flags of the other lanes are as before, and the flag of lane i is the one
\* asked for.
C13_EnableDisableFrame ==
    [][(pc = "rays" /\ Len(h_calls') = Len(h_calls) + 1
            /\ h_calls'[Len(h_calls')].op \in {"enable", "disable"}) =>
          LET i == h_calls'[Len(h_calls')].index
          IN /\ h_rays'.origins = h_rays.origins
             /\ h_rays'.directions = h_rays.directions
             /\ at_including_disabled(h_rays', i) = at_including_disabled(h_rays, i)
             /\ \A j \in Lanes \ {i} : h_rays'.enabled[j] = h_rays.enabled[j]
             /\ h_rays'.enabled[i] = (h_calls'[Len(h_calls')].op = "enable")]_vars

\* a lane holding a written ray was disabled and then enabled again, and
\* reads back that ray
C13_Witness ==
    /\ pc = "rays"
    /\ Len(h_calls) = 2
    /\ h_calls[1].op = "disable"
    /\ h_calls[2].op = "enable"
    /\ h_calls[1].index = h_calls[2].index
    /\ Unwrap(h_last).enabled[h_calls[1].index]
    /\ at(h_rays, h_calls[2].index) = Some(CameraRay(h_calls[2].index))

\* C14: a masked assignment changes lane i to the new value iff mask[i] is
\* true and leaves every other lane at its prior value, for every lane count.
C14_MaskedAssignFrame ==
    (pc = "masked" /\ IsSome(h_last)) =>
        LET call == h_calls[1]
        IN \A l \in 0 .. (call.n - 1) :
              Unwrap(h_last)[l] = IF call.mask[l] THEN OtherVector(call.n)[l]
                                  ELSE BaseVector(call.n)[l]

\* C15: collecting k rays into PackedRays<N>: for k <= N the lanes 0..k-1
\* hold the rays in iteration order and are enabled and the lanes k..N-1 are
\* disabled; for k > N the construction ends in the assertion failure.
C15_FromIter ==
    (pc = "collect" /\ IsSome(h_last)) =>
        LET s == h_calls[1]
            r == Unwrap(h_last)
        IN IF Len(s) > N
           THEN r = Panic
           ELSE \A i \in Lanes :
                   IF i < Len(s)
                   THEN is_enabled(r, i) /\ at(r, i) = Some(s[i + 1])
                   ELSE ~is_enabled(r, i) /\ at(r, i) = None

\* an iterator of N+1 rays was collected and the assertion failed
C15_Witness ==
    /\ pc = "collect"
    /\ IsSome(h_last)
    /\ Len(h_calls[1]) = N + 1
    /\ Unwrap(h_last) = Panic

\* flattened positions of the enabled lanes of a list of chunks
EnabledPositions(rays) == {p \in Positions(rays) : rays[p \div N].enabled[p % N]}

\* C19: after the in-place partition of a bounce of trace_vectorized3 every
\* enabled lane lies in a chunk below last_active_chunk, every chunk below
\* last_active_chunk - 1 has all its lanes enabled, last_active_chunk is
\* ceil(number of enabled lanes / N), and it is not larger than before the
\* bounce.
C19_PartitionCompacts ==
    [][(pc = "v3_shuffle" /\ pc' = "v3_loop") =>
          /\ \A p \in EnabledPositions(rays3') : p \div N < last_active_chunk3'
          /\ \A j \in Chunks : j < last_active_chunk3' - 1 =>
                \A i \in Lanes : rays3'[j].enabled[i]
          /\ last_active_chunk3' = (Cardinality(EnabledPositions(rays3')) + N - 1) \div N
          /\ last_active_chunk3' <= last_active_chunk3]_vars

\* a partition that swapped lanes has ended with fewer active chunks than
\* the input has, and not with none
C19_Witness ==
    /\ pc = "v3_loop"
    /\ k3 >= 1
    /\ swaps3 > 0
    /\ 0 < last_active_chunk3
    /\ last_active_chunk3 < NumChunks

\* C20: after the shuffle of a bounce of trace_vectorized2, with k the number
\* of lanes of the processed chunks that are enabled after the dispatch: the
\* next buffer holds these lanes in their order in slots 0..k-1, enabled, and
\* the disabled lanes of the processed chunks in their order in the slots
\* from k on, disabled, each with its colour and hit_sky flag, and the new
\* last_active_chunk is ceil(k / N).
C20_ShuffleCompacts ==
    [][(pc = "v2_loop" /\ k2' = k2 + 1) =>
          LET sel == k2 % 2
              nxt == 1 - sel
              P == 0 .. (last_active_chunk2 * N - 1)
              E == {p \in P : ray_buffers'[sel][p \div N].enabled[p % N]}
              k == Cardinality(E)
              Slot(p) == IF p \in E THEN Cardinality({q \in E : q < p})
                         ELSE k + Cardinality({q \in P \ E : q < p})
          IN /\ \A p \in P :
                   LaneTuple(ray_buffers'[nxt], color2'[nxt], hit_sky2'[nxt], Slot(p))
                     = LaneTuple(ray_buffers'[sel], color2'[sel], hit_sky2'[sel], p)
             /\ last_active_chunk2' = (k + N - 1) \div N]_vars

\* the first bounce left a disabled lane in front of an enabled one, and the
\* shuffle packed the enabled lanes into fewer chunks
C20_Witness ==
    /\ pc = "v2_loop"
    /\ k2 = 1
    /\ \E p, q \in EnabledPositions(rays_in) :
         /\ p < q
         /\ ~ray_buffers[0][p \div N].enabled[p % N]
         /\ ray_buffers[0][q \div N].enabled[q % N]
    /\ 0 < last_active_chunk2
    /\ last_active_chunk2 < NumChunks

\* C18: get_hit_result of Lambertian, Metal and Dielectric returns a
\* HitResult with a scattered ray for every hit, and the attenuation of
\* Dielectric is white.
C18_MaterialsAlwaysScatter ==
    (pc = "material" /\ IsSome(h_last)) =>
        /\ IsSome(Unwrap(h_last).scattered_ray)
        /\ h_calls[1].material.type = "dielectric" => Unwrap(h_last).attenuation = White

\* a Lambertian hit whose random vector cancelled the normal scattered along
\* the normal
C18_Witness ==
    /\ pc = "material"
    /\ IsSome(h_last)
    /\ h_calls[1].material.type = "lambertian"
    /\ Unwrap(h_last).scattered_ray
          = Some(RayNew(h_calls[1].hit_record.location, h_calls[1].hit_record.normal))

\* ------------------------------------------------------------ call order of the bounce loop
\* the call before call p, or a marker when p is the first call
CallBefore(p) == IF p > 1 THEN h_calls[p - 1] ELSE Event("start", 0, 0, 0, TRUE)

\* C16: in every bounce of each vectorized tracer and for every processed
\* chunk, a fresh PackedHitRecords is created, then hit_packed is called for
\* every object of the scene in turn, then finalize is called, exactly once,
\* then the lanes are dispatched; the next chunk starts after that dispatch,
\* every chunk below last_active_chunk is processed, and a call of a later
\* bounce comes after the dispatch of every chunk processed before.
C16_CallOrder ==
    /\ \A p \in 1 .. Len(h_calls) :
         LET e == h_calls[p]
             before == CallBefore(p)
         IN /\ e.ev = "default" =>
                 \/ e.j = 0 /\ before = Event("guard", e.k, 0, 0, TRUE)
                 \/ e.j > 0 /\ before = Event("dispatch", e.k, e.j - 1, 0, TRUE)
            /\ e.ev = "hit_packed" =>
                 /\ e.o \in 1 .. Len(Objects)
                 /\ before = (IF e.o = 1 THEN Event("default", e.k, e.j, 0, TRUE)
                              ELSE Event("hit_packed", e.k, e.j, e.o - 1, TRUE))
            /\ e.ev = "finalize" =>
                 /\ before = Event("hit_packed", e.k, e.j, Len(Objects), TRUE)
                 /\ \A q \in 1 .. Len(h_calls) : h_calls[q] = e => q = p
            /\ e.ev = "dispatch" => before = Event("finalize", e.k, e.j, 0, TRUE)
            /\ e.ev = "hit_packed" =>
                 \A q \in 1 .. (p - 1) :
                    (h_calls[q].ev = "default" /\ h_calls[q].k < e.k) =>
                       \E r \in (q + 1) .. (p - 1) :
                          h_calls[r] = Event("dispatch", h_calls[q].k, h_calls[q].j, 0, TRUE)
    /\ pc \in {"o_shuffle", "v3_shuffle"} =>
         \A j \in 0 .. (OActiveChunks - 1) :
            \E p \in 1 .. Len(h_calls) : h_calls[p] = Event("dispatch", OBounce, j, 0, TRUE)

\* trace_vectorized3 has returned after it dispatched the second chunk in its
\* second bounce
C16_Witness ==
    /\ pc = "o_end"
    /\ o_tracer = 3
    /\ \E p \in 1 .. Len(h_calls) : h_calls[p] = Event("dispatch", 1, 1, 0, TRUE)

\* C17: the test at the top of the bounce loop (any_enabled in
\* trace_vectorized, last_active_chunk in trace_vectorized2 and
\* trace_vectorized3) is evaluated exactly once in a bounce that tests
\* objects, before the first hit_packed of the bounce, and it found work; a
\* hit_packed is only ever made while a lane is enabled, or last_active_chunk
\* is not 0; and the test that finds no work is the last call of the loop.
C17_GuardOncePerBounce ==
    /\ \A p \in 1 .. Len(h_calls) :
         LET e == h_calls[p]
         IN /\ e.ev = "hit_packed" =>
                 /\ Cardinality({q \in 1 .. Len(h_calls) :
                                   h_calls[q].ev = "guard" /\ h_calls[q].k = e.k}) = 1
                 /\ \E q \in 1 .. (p - 1) : h_calls[q] = Event("guard", e.k, 0, 0, TRUE)
            /\ (e.ev = "guard" /\ ~e.value) => p = Len(h_calls)
    /\ (Len(h_calls) > 0 /\ h_calls[Len(h_calls)].ev = "guard") =>
         h_calls[Len(h_calls)].value = OGuard
    /\ (pc = "o_objects" /\ o_obj <= Len(Objects)) =>
         /\ OGuard
         /\ o_j < OActiveChunks

\* trace_vectorized has returned after a bounce that tested the objects and a
\* bounce that found no lane enabled
C17_Witness ==
    /\ pc = "o_end"
    /\ o_tracer = 1
    /\ Len(h_calls) > 1
    /\ h_calls[Len(h_calls)] = Event("guard", 1, 0, 0, FALSE)
    /\ \E p \in 1 .. Len(h_calls) : h_calls[p].ev = "hit_packed"

\* ------------------------------------------------------------ the tiles of an image
\* C21: every tile task is received by one worker, rendered once and its End
\* result stored once, never more; when render returns every tile has been
\* received, rendered and stored exactly once, its result is at index
\* block_index_x + block_index_y * width_in_blocks and is not the default.
C21_EveryTileOnce ==
    /\ r_pc # "idle" =>
         \A q \in Tiles :
            /\ r_count[q].received <= 1
            /\ r_count[q].rendered <= r_count[q].received
            /\ r_count[q].stored <= r_count[q].rendered
    /\ r_pc = "done" =>
         \A q \in Tiles :
            /\ r_count[q] = [received |-> 1, rendered |-> 1, stored |-> 1]
            /\ results[q] # DefaultResult
            /\ result_index(results[q]) = q
            /\ results[q].block_index_x < width_in_blocks

\* render has returned an image of two tiles that two workers rendered
C21_Witness ==
    /\ r_pc = "done"
    /\ Cardinality(Tiles) = 2
    /\ results[0].thread_id # results[1].thread_id

\* C22: render terminates: it returns in the end, the update loop is left
\* only when every worker has ended with both queues empty, and the joins
\* complete.
C22_RenderTerminates ==
    /\ <>(r_pc = "done")
    /\ [](r_pc \in {"join", "done"} =>
            /\ \A t \in Threads : w_pc[t] = "exit"
            /\ task_queue = << >>
            /\ update_queue = << >>)
    /\ [](r_pc = "done" => r_joined = r_input.num_threads)

\* render has returned after two workers rendered a tile each
C22_Witness ==
    /\ r_pc = "done"
    /\ r_input.num_threads = 2
    /\ r_joined = 2
    /\ \E q \in Tiles : results[q].thread_id = 1
    /\ \E q \in Tiles : results[q].thread_id = 0 /\ results[q].output # << >>

\* the tasks whose tile holds pixel (col, row)
TasksOf(col, row) ==
    {q \in DOMAIN TaskList :
        LET task == TaskList[q]
        IN /\ task.block_index_x * task.block_size <= col
           /\ col < task.block_index_x * task.block_size + task.size_x
           /\ task.block_index_y * task.block_size <= row
           /\ row < task.block_index_y * task.block_size + task.size_y}

Pixels == (0 .. (r_input.image_width - 1)) \X (0 .. (r_input.image_height - 1))

\* C29: every pixel of the image is in the tile of exactly one task, the task
\* of block (col / block_size, row / block_size); every tile has at least one
\* column and one row and ends at the image edge; and the image that render
\* returns holds for every pixel the colour that the tile rendered for it.
C29_PixelsCovered ==
    r_pc # "idle" =>
        /\ \A q \in DOMAIN TaskList :
              /\ TaskList[q].size_x >= 1
              /\ TaskList[q].size_y >= 1
              /\ TaskList[q].block_index_x * r_input.block_size + TaskList[q].size_x
                    <= r_input.image_width
              /\ TaskList[q].block_index_y * r_input.block_size + TaskList[q].size_y
                    <= r_input.image_height
        /\ \A p \in Pixels :
              /\ Cardinality(TasksOf(p[1], p[2])) = 1
              /\ \A q \in TasksOf(p[1], p[2]) :
                    /\ TaskList[q].block_index_x = p[1] \div r_input.block_size
                    /\ TaskList[q].block_index_y = p[2] \div r_input.block_size
        /\ r_pc = "done" =>
              /\ DOMAIN image = Pixels
              /\ \A p \in Pixels : image[p] = PixelOf(p[1], p[2])

\* render has returned a 3 by 2 image made of a full tile and a clipped tile
C29_Witness ==
    /\ r_pc = "done"
    /\ r_input.image_width = 3
    /\ r_input.image_height = 2
    /\ r_input.block_size = 2
    /\ image[<<2, 1>>] = PixelOf(2, 1)

\* ------------------------------------------------------------ padding lanes
\* a lane that holds no ray of a sample: the padding of a partial chunk
IsPadding(rays, p) == rays[p \div N].directions[p % N] = 0

\* the padding lanes of the colours that trace_vectorized returned
V1PaddingIsBlack ==
    \A c \in 1 .. Len(v1_out) : \A i \in Lanes :
        ((c - 1) * N + i \notin Samples) => v1_out[c][i] = Black

\* the padding lanes of the colours that trace_vectorized2 summed
V2PaddingIsBlack ==
    (IsSome(result2) /\ NumChunks > 0) =>
        \A p \in Positions(ray_buffers[V2Selector]) :
            IsPadding(ray_buffers[V2Selector], p) => color2[V2Selector][p \div N][p % N] = Black

\* the padding lanes of the colours that trace_vectorized3 summed
V3PaddingIsBlack ==
    pc = "done" =>
        \A p \in Positions(rays3) : IsPadding(rays3, p) => color3[p \div N][p % N] = Black

\* C23: the lanes that are disabled in the input, the padding of a partial
\* last chunk, are black in the colours that every vectorized tracer sums.
C23_PaddingIsBlack == V1PaddingIsBlack /\ V2PaddingIsBlack /\ V3PaddingIsBlack

\* ------------------------------------------------------------ trace_rays and trace
\* C26: for the same rays, depth_limit and scene, trace_rays returns for
\* every ray the colour that trace returns for it: the product of the
\* attenuations times the sky colour of the ray that missed, the product of
\* the attenuations up to the hit that absorbed, or black for a ray that
\* still scatters after depth_limit bounces.
C26_TraceRaysIsTrace ==
    pc = "tr_done" =>
        /\ Len(Unwrap(tr_out)) = Len(RayList)
        /\ Len(tr_ref) = Len(RayList)
        /\ \A q \in DOMAIN RayList :
              LET s == q - 1
                  f == scene[s]
              IN /\ Unwrap(tr_out)[q] = tr_ref[q]
                 /\ Unwrap(tr_out)[q] =
                       (CASE f.kind = "miss" -> AttProd(s, f.at) * sky_color(Dir(s, f.at))
                          [] f.kind = "absorb" -> AttProd(s, f.at + 1)
                          [] OTHER -> Black)

\* both functions have returned for a ray that missed after a hit, a ray that
\* was absorbed and a ray that still scattered
C26_Witness ==
    /\ pc = "tr_done"
    /\ Len(RayList) >= 3
    /\ depth_limit >= 2
    /\ scene[0].kind = "miss" /\ scene[0].at = 1
    /\ scene[1].kind = "absorb"
    /\ tr_ref[1] # Black

\* ------------------------------------------------------------ the buffers that trace_vectorized2 reads
\* C24: the buffer set that trace_vectorized2 reads after the bounce loop is
\* the one that the shuffle of the last executed bounce wrote, the set with
\* the index (number of executed bounces) mod 2, and with no chunks the
\* function returns black.
C24_ReadsLastShuffle ==
    IsSome(result2) =>
        IF NumChunks = 0 THEN result2 = Some(Black) ELSE V2Selector = k2 % 2

\* C25: when trace_vectorized2 applies the sky colour after the loop, the
\* colour of every lane marked hit_sky is multiplied by the sky colour of the
\* direction of the ray that the lane holds, the ray that escaped.
C25_SkyOfEscapedRay ==
    [][(pc = "v2_loop" /\ pc' = "v3_call" /\ NumChunks > 0) =>
          \A p \in Positions(ray_buffers[V2Selector]) :
             hit_sky2[V2Selector][p \div N][p % N] =>
                color2'[V2Selector][p \div N][p % N] =
                   (IF ray_buffers[V2Selector][p \div N].enabled[p % N] THEN Black
                    ELSE color2[V2Selector][p \div N][p % N]
                           * sky_color(ray_buffers[V2Selector][p \div N].directions[p % N]))]_vars

\* ------------------------------------------------------------ Scene::hit and the packed path
\* Iterator::min_by_key over the hits that are left: the element kept so far
\* is replaced only by an element of smaller key
RECURSIVE min_by_key(_, _)
min_by_key(hits, best) ==
    IF hits = << >> THEN best
    ELSE min_by_key(Tail(hits), IF Head(hits).t < best.t THEN Head(hits) ELSE best)

\* Scene::hit for the ray of lane i on the objects of the calls made: the
\* objects are tested in list order, the misses are filtered out and the hit
\* of least t is returned
Scene_hit(i) ==
    LET all == [k \in 1 .. Len(h_calls) |->
                  [t |-> h_calls[k].t[i], material |-> h_calls[k].material,
                   valid |-> h_calls[k].valid_mask[i]]]
        IsHit(h) == h.valid
        hits == SelectSeq(all, IsHit)
    IN IF hits = << >> THEN None ELSE Some(min_by_key(Tail(hits), Head(hits)))

\* C27: for the same objects in the same order and the same ray, the packed
\* path returns a hit iff Scene::hit returns one, and the hit is of the same
\* object, also when two objects are hit at equal t.
C27_SameWinner ==
    pc = "at" =>
        \A i \in Lanes :
            LET packed == Unwrap(h_last)[i].value
            IN /\ IsSome(packed) <=> IsSome(Scene_hit(i))
               /\ IsSome(packed) =>
                    /\ Unwrap(packed).material = Unwrap(Scene_hit(i)).material
                    /\ Unwrap(packed).t = Unwrap(Scene_hit(i)).t

\* ------------------------------------------------------------ the partition loop
\* CombinedIndex::valid
valid(self, rays) == self.chuck_index < Cardinality(DOMAIN rays) /\ self.slot_index < N

\* the place of a cursor in the order of the lanes; before_first is before
\* every lane
Flat(index) ==
    IF index.slot_index >= N THEN 0 - 1 ELSE index.chuck_index * N + index.slot_index

\* one bounce of trace_vectorized3 on up to MaxChunks chunks: every sample
\* either misses at once or goes on, which gives the partition loop every
\* pattern of enabled lanes
MaxChunks == 3      \* bound: largest number of chunks of the partition

InitPartition ==
    /\ pc = "v3_call"
    /\ \E ns \in 1 .. (MaxChunks * N) :
         /\ rays_in = [c \in 0 .. (ChunkCount(ns) - 1) |-> ChunkOf(c, ns)]
         /\ depth_limit = 1
         /\ scene \in [0 .. (ns - 1) -> Fates({"miss"}, 1)]
    /\ TraceIdle /\ V1Idle /\ V2Idle /\ V3Idle /\ OrderIdle /\ RenderIdle /\ TraceRaysIdle /\ HitIdle

NextPartition == V3Call \/ V3Dispatch \/ V3Swap \/ V3Break \/ V3Return

\* the thread that runs the partition loop goes on while the loop has an
\* iteration to take
SpecPartition == InitPartition /\ [][NextPartition]_vars /\ WF_vars(V3Swap \/ V3Break)

\* C28: the partition loop of trace_vectorized3 terminates for every pattern
\* of enabled lanes: it is left in the end, and an iteration that swaps moves
\* the front cursor forward and the back cursor backward to valid lanes with
\* the front cursor before the back cursor.
C28_PartitionTerminates ==
    /\ (pc = "v3_shuffle") ~> (pc = "v3_loop")
    /\ [][(pc = "v3_shuffle" /\ swaps3' = swaps3 + 1) =>
            /\ Flat(front_index') > Flat(front_index)
            /\ Flat(back_index') < Flat(back_index)
            /\ valid(front_index', rays3)
            /\ valid(back_index', rays3)
            /\ Flat(front_index') < Flat(back_index')]_vars

\* the partition loop ended after two swaps
C28_Witness ==
    /\ pc = "v3_loop"
    /\ swaps3 = 2
    /\ k3 >= 1

\* ------------------------------------------------------------ hits and enabled lanes
\* the colours of chunk j of the tracer under way after the step
OColorAfter(j) ==
    CASE o_tracer = 1 -> v1_color'
      [] o_tracer = 2 -> color2'[k2 % 2][j]
      [] OTHER -> color3'[j]

\* C30: in every vectorized tracer a lane that holds a hit record when the
\* material dispatch of its chunk starts is enabled, so rays.at(i) is Some for
\* it, and the dispatch leaves the colour of a disabled lane as it was.
C30_HitOnlyIfEnabled ==
    /\ [](pc = "o_dispatch" =>
            \A i \in Lanes :
                IsSome(Unwrap(hit_records)[i]) =>
                    /\ OChunk.rays.enabled[i]
                    /\ IsSome(at(OChunk.rays, i)))
    /\ [][pc = "o_dispatch" =>
            \A i \in Lanes :
                ~OChunk.rays.enabled[i] => OColorAfter(o_j)[i] = OChunk.color[i]]_vars

\* the dispatch of a chunk starts with a lane that holds a hit record and a
\* disabled lane whose ray would hit an object
C30_Witness ==
    /\ pc = "o_dispatch"
    /\ \E i \in Lanes : IsSome(Unwrap(hit_records)[i])
    /\ \E i \in Lanes :
         /\ ~OChunk.rays.enabled[i]
         /\ SceneHits(at_including_disabled(OChunk.rays, i))

====
